---- MODULE Spec2Model ----
(***************************************************************************)
(* QuadRay engine: objects hierarchy (object.cpp), its two-phase update,   *)
(* the relation walk of arrays, bounding/clipping box recalculation and    *)
(* the camera actions, as a state machine.                                 *)
(*                                                                         *)
(* Numbers: rt_real values are taken on an integer grid; RT_INF is the     *)
(* sentinel INF.  Matrices are affine maps with a common denominator d     *)
(* (entries are n/d), kept in lowest terms, so that products of rotations  *)
(* with rational sine/cosine stay exact.                                   *)
(***************************************************************************)
EXTENDS Integers, Sequences, FiniteSets, TLC

(***************************************************************************)
(* Bounds of the model                                                     *)
(***************************************************************************)
MaxFrames == 2          \* render() calls per behaviour
MaxTime   == 1          \* frame time values 0..MaxTime
MaxActs   == 2          \* update(time, action) calls per behaviour

(***************************************************************************)
(* Program constants                                                       *)
(***************************************************************************)
Null == 0               \* RT_NULL for object references (objects are 1..n)
INF  == 1000            \* RT_INF

(* element kinds of the clipper lists and relation kinds, kept by name *)
RT_ACCUM_ENTER == "ACCUM_ENTER"
RT_ACCUM_LEAVE == "ACCUM_LEAVE"
RT_REL_MINUS_INNER == "MINUS_INNER"
RT_REL_MINUS_OUTER == "MINUS_OUTER"
RT_REL_MINUS_ACCUM == "MINUS_ACCUM"
RT_REL_INDEX_ARRAY == "INDEX_ARRAY"
RT_REL_BOUND_ARRAY == "BOUND_ARRAY"
RT_REL_UNTIE_ARRAY == "UNTIE_ARRAY"
RT_REL_BOUND_INDEX == "BOUND_INDEX"
RT_REL_UNTIE_INDEX == "UNTIE_INDEX"

(* update flags are kept as sets of these names *)
RT_UPDATE_FLAG_OBJ == "OBJ"
RT_UPDATE_FLAG_ARR == "ARR"
RT_UPDATE_FLAG_SCL == "SCL"
RT_UPDATE_FLAG_ROT == "ROT"
RT_UPDATE_FLAG_SRF == "SRF"

(* optimization bits tested by object.cpp *)
RT_OPTS_FSCALE == "FSCALE"
RT_OPTS_TARRAY == "TARRAY"
RT_OPTS_VARRAY == "VARRAY"
RT_OPTS_ADJUST == "ADJUST"
RT_OPTS_UPDATE == "UPDATE"
RT_OPTS_NONE == {}
RT_OPTS_FULL == {RT_OPTS_FSCALE, RT_OPTS_TARRAY, RT_OPTS_VARRAY,
                 RT_OPTS_ADJUST, RT_OPTS_UPDATE}

SurfaceTags == {"PLANE", "CYLINDER", "SPHERE", "CONE", "PARABOLOID",
                "HYPERBOLOID"}
RT_IS_ARRAY(tag) == tag = "ARRAY"
RT_IS_SURFACE(tag) == tag \in SurfaceTags

(***************************************************************************)
(* Scalars and vectors                                                     *)
(***************************************************************************)
RT_MAX(a, b) == IF a > b THEN a ELSE b
RT_MIN(a, b) == IF a < b THEN a ELSE b
RT_FABS(a) == IF a < 0 THEN -a ELSE a
RT_SIGN(a) == IF a > 0 THEN 1 ELSE IF a < 0 THEN -1 ELSE 0

(* RT_SQRT on the integer grid: exact on perfect squares, else rounded down *)
(* v bound to a name of the body F: the value is computed once *)
Let(v, F(_)) == CHOOSE r \in {F(x) : x \in {v}} : TRUE

RECURSIVE SqrtBetween(_, _, _)
SqrtBetween(n, lo, hi) ==
    IF hi - lo <= 1 THEN lo
    ELSE LET m == (lo + hi) \div 2
         IN
         IF m * m <= n THEN SqrtBetween(n, m, hi) ELSE SqrtBetween(n, lo, m)
RT_SQRT(n) == IF n <= 0 THEN 0 ELSE SqrtBetween(n, 0, RT_MIN(n + 1, 46341))

RECURSIVE Gcd(_, _)
Gcd(a, b) == IF b = 0 THEN RT_FABS(a) ELSE Gcd(b, a % RT_FABS(b))

(* a vector built component by component *)
Vec3(F(_)) == <<F(1), F(2), F(3)>>

Zero3 == <<0, 0, 0>>
RT_VEC3_ADD(a, b) == Vec3(LAMBDA i : a[i] + b[i])
RT_VEC3_SUB(a, b) == Vec3(LAMBDA i : a[i] - b[i])
RT_VEC3_MAX(a, b) == Vec3(LAMBDA i : RT_MAX(a[i], b[i]))
RT_VEC3_MIN(a, b) == Vec3(LAMBDA i : RT_MIN(a[i], b[i]))
RT_VEC3_DOT(a, b) == a[1] * b[1] + a[2] * b[2] + a[3] * b[3]
VecScale(a, k) == Vec3(LAMBDA i : a[i] * k)

(***************************************************************************)
(* Matrices: l[c] is the image of local axis c (the code's mtx[c], c < 3), *)
(* p is mtx[3] (the position), all divided by d.                           *)
(***************************************************************************)
iden4 == [l |-> <<(<<1, 0, 0>>), (<<0, 1, 0>>), (<<0, 0, 1>>)>>, p |-> Zero3, d |-> 1]

LinApply(l, v) == Vec3(LAMBDA r : l[1][r] * v[1] + l[2][r] * v[2] + l[3][r] * v[3])

MatGcd(m) ==
    Let(Gcd(Gcd(Gcd(m.l[1][1], m.l[1][2]), m.l[1][3]), m.d), LAMBDA g1 :
    Let(Gcd(Gcd(Gcd(m.l[2][1], m.l[2][2]), m.l[2][3]), g1), LAMBDA g2 :
    Let(Gcd(Gcd(Gcd(m.l[3][1], m.l[3][2]), m.l[3][3]), g2), LAMBDA g3 :
    Gcd(Gcd(Gcd(m.p[1], m.p[2]), m.p[3]), g3))))

MatNorm(m) ==
    Let(MatGcd(m), LAMBDA g :
    [l |-> Vec3(LAMBDA c : Vec3(LAMBDA r : m.l[c][r] \div g)),
         p |-> Vec3(LAMBDA r : m.p[r] \div g),
         d |-> m.d \div g])

(* mp = m1 * m2 *)
matrix_mul_matrix(m1, m2) ==
    Let([l |-> Vec3(LAMBDA c : LinApply(m1.l, m2.l[c])),
         p |-> RT_VEC3_ADD(LinApply(m1.l, m2.p), VecScale(m1.p, m2.d)),
         d |-> m1.d * m2.d], LAMBDA mp :
    MatNorm(mp))

(* vp = m1 * v1 with v1[3] = 1: a point [n |-> numerators, d |-> denominator] *)
matrix_mul_vector(m1, v1) ==
    [n |-> RT_VEC3_ADD(LinApply(m1.l, v1), m1.p), d |-> m1.d]

(* sine and cosine times 5: exact for the trivial angles (RT_SINA, RT_COSA), *)
(* every other angle is the 3-4-5 angle (36.87 degrees) with the sign of a   *)
RT_COSA5(a) == IF a \in {0} THEN 5
               ELSE IF a \in {-180, 180} THEN -5
               ELSE IF a \in {-270, -90, 90, 270} THEN 0
               ELSE 4
RT_SINA5(a) == IF a \in {-180, 0, 180} THEN 0
               ELSE IF a \in {90, -270} THEN 5
               ELSE IF a \in {-90, 270} THEN -5
               ELSE IF a > 0 THEN 3 ELSE -3

RotX(a) == [l |-> <<(<<5, 0, 0>>), (<<0, RT_COSA5(a), RT_SINA5(a)>>),
                    (<<0, -RT_SINA5(a), RT_COSA5(a)>>)>>, p |-> Zero3, d |-> 5]
RotY(a) == [l |-> <<(<<RT_COSA5(a), 0, -RT_SINA5(a)>>), (<<0, 5, 0>>),
                    (<<RT_SINA5(a), 0, RT_COSA5(a)>>)>>, p |-> Zero3, d |-> 5]
RotZ(a) == [l |-> <<(<<RT_COSA5(a), RT_SINA5(a), 0>>),
                    (<<-RT_SINA5(a), RT_COSA5(a), 0>>), (<<0, 0, 5>>)>>, p |-> Zero3, d |-> 5]
SclM(s) == [l |-> <<(<<s[1], 0, 0>>), (<<0, s[2], 0>>), (<<0, 0, s[3]>>)>>, p |-> Zero3, d |-> 1]
PosM(p) == [l |-> iden4.l, p |-> p, d |-> 1]

(* matrix of a Transform3D: scale, then rotate about X, Y, Z, then translate *)
matrix_from_transform(trm) ==
    Let(matrix_mul_matrix(RotX(trm.rot[1]), SclM(trm.scl)), LAMBDA mx :
    Let(matrix_mul_matrix(RotY(trm.rot[2]), mx), LAMBDA my :
    Let(matrix_mul_matrix(RotZ(trm.rot[3]), my), LAMBDA mz :
    matrix_mul_matrix(PosM(trm.pos), mz))))

Trm(scl, rot, pos) == [scl |-> scl, rot |-> rot, pos |-> pos]
One3 == <<1, 1, 1>>

(***************************************************************************)
(* State                                                                   *)
(***************************************************************************)
VARIABLES
    scene,      \* the scene literal (rt_OBJECT tree) the scene is built on
    opts,       \* rg->opts, the optimization bits in force
    lit,        \* the literal's mutable fields: obj->trm and obj->time per node
    obj,        \* the objects of the scene, one per literal node
    frame,      \* number of render() calls made so far
    acts,       \* number of update(time, action) calls made so far
    call,       \* the last public call: [op, time, action]
    wlog,       \* Phase 1 of the last render: <<x, y>> when the update of x wrote y
    reads,      \* last Phase 0: relations processed and child indices read
    insts,      \* scenes built on the literal: the otm copies of each one
    demo,       \* the demo's globals: eout, frames shown, main_step's result
    res,        \* how the scene's construction ended: "ok", "exception", "fault"
    built       \* obj_num and obj_arr of the arrays a constructor run has built

vars == <<scene, opts, lit, obj, frame, acts, call, wlog, reads, insts, demo, res, built>>

(***************************************************************************)
(* Scene literal access.  Nodes are numbered in the order the constructors *)
(* run (a parent before its children, children in obj_arr order).          *)
(***************************************************************************)
Nodes == 1..Len(scene.tag)
Tag(n) == IF n = Null THEN "NULL" ELSE scene.tag[n]
Parent(n) == scene.par[n]

SupportedTags == SurfaceTags \cup {"ARRAY", "CAMERA", "LIGHT"}

(* obj_arr of an array after rt_Array's constructor: children with an       *)
(* unsupported tag are left out and obj_num is reduced                      *)
obj_arr(a) == SelectSeq(scene.kids[a], LAMBDA k : scene.tag[k] \in SupportedTags)
obj_num(a) == Len(obj_arr(a))

(* obj_arr[i] for a 0-based index i; an index outside the array reads       *)
(* whatever lies there, which is no object of the scene                     *)
ObjAt(a, i) == IF i >= 0 /\ i < obj_num(a) THEN obj_arr(a)[i + 1] ELSE Null

(* every surface given its whole polyhedron, whatever its clipper box *)
verts_num_whole(n) == IF scene.tag[n] = "PLANE" THEN 4 ELSE 8

(* empty bounding polyhedron decided by the surface constructors *)
verts_num(n) ==
    LET t == scene.tag[n]
    IN
    LET mn == scene.min[n]
    IN
    LET mx == scene.max[n]
    IN
    CASE t = "PLANE" ->
               IF mn[1] = -INF \/ mn[2] = -INF \/ mx[1] = INF \/ mx[2] = INF
               THEN 0 ELSE 4
          [] t = "SPHERE" -> 8
          [] t \in {"CYLINDER", "CONE", "HYPERBOLOID"} ->
               IF mn[3] = -INF \/ mx[3] = INF THEN 0 ELSE 8
          [] t = "PARABOLOID" ->
               IF (mn[3] = -INF /\ scene.prm[n] < 0) \/ (mx[3] = INF /\ scene.prm[n] > 0)
               THEN 0 ELSE 8
          [] OTHER -> 0

(* the sizes of pl_edges, qd_edges and pl_faces, qd_faces, or 0 with verts_num *)
edges_num(n) == IF verts_num(n) = 0 THEN 0 ELSE IF scene.tag[n] = "PLANE" THEN 4 ELSE 12
faces_num(n) == IF verts_num(n) = 0 THEN 0 ELSE IF scene.tag[n] = "PLANE" THEN 1 ELSE 6

(* rt_Object::rt_Object and the constructors above it: the fields of a new *)
(* object built on literal node n whose transform is trm                   *)
rt_Object(trm) ==
    [otm |-> trm,
     obj_changed |-> {}, obj_has_trm |-> {}, mtx_has_trm |-> {},
     trnode |-> Null, bvnode |-> Null,
     mtx |-> iden4, axm |-> iden4,
     map |-> <<1, 2, 3>>, sgn |-> <<1, 1, 1>>,
     clip |-> <<>>, srf_changed |-> {}, recalc |-> FALSE,
     bmin |-> Zero3, bmax |-> Zero3, cmin |-> Zero3, cmax |-> Zero3,
     verts |-> [n |-> <<>>, d |-> 1], mid |-> [n |-> Zero3, d |-> 1], rad2 |-> [n |-> 0, d |-> 1],
     rad |-> 0,
     cam_changed |-> {}, hor_sin |-> 0, hor_cos |-> 5]

(* animation callbacks of the scene literals: f_anim(time, last_time, trm) *)
f_anim(kind, time, last_time, trm) ==
    CASE kind = "an_turn" ->
             [trm EXCEPT !.rot = <<trm.rot[1], trm.rot[2], (45 * time) % 360>>]
      [] kind = "an_move" ->
             [trm EXCEPT !.pos = <<trm.pos[1] + (time - last_time), trm.pos[2], trm.pos[3]>>]
      [] OTHER -> trm

TrivialScl(v) == \A i \in 1..3 : v[i] \in {-1, 1}
TrivialRot(v) == \A i \in 1..3 : v[i] \in {-270, -180, -90, 0, 90, 180, 270}

(* a search that finds no ancestor with a transform of its own *)
FindTrnode_none(objs, n) == Null

(* the search for the nearest ancestor with a transform of its own *)
RECURSIVE FindTrnode(_, _)
FindTrnode(objs, n) ==
    IF n = Null THEN Null
    ELSE IF objs[n].obj_has_trm # {} THEN n
    ELSE FindTrnode(objs, Parent(n))

(* a test that never asks for the full matrix *)
AlwaysFull_never(n) == FALSE

(* the objects rt_Object::update always gives their full matrix: every     *)
(* object when transform caching is off, cameras and lights in any case    *)
AlwaysFull(n) ==
    RT_OPTS_TARRAY \notin opts \/ Tag(n) \in {"CAMERA", "LIGHT"}

(* rt_Object::update; st = [lit, obj, reads] is the state threaded through *)
(* the Phase 0 walk                                                         *)
rt_Object_update(st, n, time, mtx, flags) ==
    LET last == st.lit.time[n]
    IN
    LET anim == scene.anim[n]
    IN
    Let(IF anim # "NULL" /\ last # time
        THEN f_anim(anim, time, IF last < 0 THEN 0 ELSE last, st.lit.trm[n])
        ELSE st.lit.trm[n], LAMBDA trm :
    LET lit1 == [trm |-> [st.lit.trm EXCEPT ![n] = trm],
                 time |-> [st.lit.time EXCEPT ![n] = time]]
    IN
    LET changed == IF anim # "NULL" THEN {RT_UPDATE_FLAG_ARR}
                   ELSE flags \cap {RT_UPDATE_FLAG_ARR}
    IN
    Let((IF TrivialScl(trm.scl) THEN {} ELSE {RT_UPDATE_FLAG_SCL})
        \cup (IF TrivialRot(trm.rot) THEN {} ELSE {RT_UPDATE_FLAG_ROT}), LAMBDA has0 :
    LET has == IF has0 # {} /\ RT_OPTS_FSCALE \notin opts
               THEN {RT_UPDATE_FLAG_SCL, RT_UPDATE_FLAG_ROT} ELSE has0
    IN
    LET mhas == has \cup (flags \cap {RT_UPDATE_FLAG_SCL, RT_UPDATE_FLAG_ROT})
    IN
    Let(FindTrnode(st.obj, Parent(n)), LAMBDA found :
    Let(matrix_from_transform(trm), LAMBDA own :
    Let(IF found # Null /\ found = Parent(n) /\ has = {}
           /\ RT_UPDATE_FLAG_ROT \in mhas
        THEN own
        ELSE IF found # Null /\ found # Parent(n) /\ has # {}
        THEN matrix_mul_matrix(matrix_mul_matrix(st.obj[found].mtx, mtx), own)
        ELSE matrix_mul_matrix(mtx, own), LAMBDA m1 :
    LET tr1 == IF has # {} THEN n ELSE found
    IN
    LET full == tr1 # Null /\ tr1 # n /\ AlwaysFull(n)
    IN
    Let(IF full THEN matrix_mul_matrix(st.obj[tr1].mtx, m1) ELSE m1, LAMBDA m2 :
    LET tr2 == IF full THEN n ELSE tr1
    IN
    LET o0 == [st.obj[n] EXCEPT !.bvnode = Null, !.obj_changed = changed]
    IN
    LET o1 == IF changed = {} THEN o0
              ELSE [o0 EXCEPT !.obj_has_trm = has, !.mtx_has_trm = mhas,
                              !.mtx = m2, !.trnode = tr2]
    IN
    [st EXCEPT !.lit = lit1, !.obj = [st.obj EXCEPT ![n] = o1]]))))))

(* the matrix row pattern test of rt_Node::update: row i has its only      *)
(* non-zero entry in column j                                               *)
RowIsAxis(row, j) == \A c \in 1..3 : (row[c] # 0) = (c = j)

(* rt_Node::update *)
rt_Node_update(st, n, time, mtx, flags) ==
    IF RT_UPDATE_FLAG_OBJ \notin flags THEN st
    ELSE
    Let(rt_Object_update(st, n, time, mtx, flags), LAMBDA s1 :
    LET o == s1.obj[n]
    IN
    LET remap == o.trnode # n \/ o.mtx_has_trm = {RT_UPDATE_FLAG_SCL}
    IN
    LET hit(i) == {j \in 1..3 : RowIsAxis(o.mtx.l[i], j)}
    IN
    LET jof(i) == CHOOSE j \in hit(i) : TRUE
    IN
    Let(Vec3(LAMBDA i : IF remap /\ hit(i) # {} THEN jof(i) ELSE o.map[i]), LAMBDA map1 :
    Let(Vec3(LAMBDA i : IF remap /\ hit(i) # {}
                        THEN RT_SIGN(o.mtx.l[i][jof(i)]) ELSE o.sgn[i]), LAMBDA sgn1 :
    Let(Vec3(LAMBDA i : IF remap /\ hit(i) # {}
                        THEN RT_FABS(o.mtx.l[i][jof(i)]) ELSE 0), LAMBDA scl1 :
    LET own == o.trnode = n /\ o.mtx_has_trm = {RT_UPDATE_FLAG_SCL}
    IN
    LET inv(j) == CHOOSE i \in 1..3 : map1[i] = j
    IN
    Let(Vec3(LAMBDA j :
           IF own /\ \E i \in 1..3 : map1[i] = j
           THEN Vec3(LAMBDA c : IF c = j THEN scl1[inv(j)] ELSE 0)
           ELSE o.mtx.l[j]), LAMBDA l1 :
    LET o1 == [o EXCEPT !.map = map1, !.sgn = sgn1, !.mtx = [o.mtx EXCEPT !.l = l1]]
    IN
    IF o.obj_changed = {} THEN s1
        ELSE [s1 EXCEPT !.obj = [s1.obj EXCEPT ![n] = o1]])))))

(* rt_Camera::update(time, mtx, flags) *)
rt_Camera_update(st, n, time, mtx, flags) ==
    IF RT_UPDATE_FLAG_OBJ \notin flags THEN st
    ELSE
    Let(rt_Object_update(st, n, time, mtx, flags \cup st.obj[n].cam_changed), LAMBDA s1 :
    LET o == s1.obj[n]
    IN
    Let([o EXCEPT !.hor_sin = RT_SINA5(s1.lit.trm[n].rot[3]),
                  !.hor_cos = RT_COSA5(s1.lit.trm[n].rot[3]),
                  !.cam_changed = {}], LAMBDA o1 :
    IF o.obj_changed = {} THEN s1
        ELSE [s1 EXCEPT !.obj = [s1.obj EXCEPT ![n] = o1]]))

(* rt_Light::update: nothing but the backend's copy of pos beyond rt_Object *)
rt_Light_update(st, n, time, mtx, flags) ==
    IF RT_UPDATE_FLAG_OBJ \notin flags THEN st
    ELSE rt_Object_update(st, n, time, mtx, flags)

(***************************************************************************)
(* Custom clipper lists.  A list is a sequence of elements, head first:    *)
(* [data, obj] with obj = Null for an accum marker (elm->temp == RT_NULL), *)
(* data = "TRNODE" for a trnode element (data points to its last element). *)
(***************************************************************************)
Elem(data, o) == [data |-> data, obj |-> o]

(* a search that finds no trnode element *)
FindTrnodeElem_none(clip, k, acc, tr) == 0

(* the search of rt_Surface::add_relation for an existing trnode element:  *)
(* its position in the list, 0 when a new one has to be inserted           *)
RECURSIVE FindTrnodeElem(_, _, _, _)
FindTrnodeElem(clip, k, acc, tr) ==
    IF k > Len(clip) THEN 0
    ELSE IF acc = 0 /\ clip[k].obj = tr THEN k
    ELSE IF clip[k].obj # Null THEN FindTrnodeElem(clip, k + 1, acc, tr)
    ELSE IF acc = 0 /\ clip[k].data = RT_ACCUM_LEAVE THEN 0
    ELSE LET a1 == IF acc = 0 /\ clip[k].data = RT_ACCUM_ENTER THEN 1 ELSE acc
         IN
         LET a2 == IF a1 = 1 /\ clip[k].data = RT_ACCUM_LEAVE THEN 0 ELSE a1
         IN
         FindTrnodeElem(clip, k + 1, a2, tr)

InsertAfter(clip, k, e) == SubSeq(clip, 1, k) \o <<e>> \o SubSeq(clip, k + 1, Len(clip))

(* rt_Surface::add_relation: the clipper list of surface s after merging   *)
(* the template list lst (i-th element onwards) into clip                  *)
RECURSIVE rt_Surface_add_relation(_, _, _, _)
RECURSIVE AddArrayElems(_, _, _, _, _)
rt_Surface_add_relation(objs, clip, lst, i) ==
    IF i > Len(lst) THEN clip
    ELSE
    LET e == lst[i]
    IN
    LET tr == IF e.obj = Null THEN Null ELSE objs[e.obj].trnode
    IN
    Let(IF tr # Null /\ tr # e.obj THEN FindTrnodeElem(clip, 1, 0, tr) ELSE 0, LAMBDA k :
    Let(IF e.obj = Null THEN <<Elem(e.data, Null)>> \o clip
        ELSE IF RT_IS_ARRAY(Tag(e.obj))
        THEN AddArrayElems(objs, clip, e.data, obj_arr(e.obj), 1)
        ELSE IF RT_IS_SURFACE(Tag(e.obj))
        THEN IF tr # Null /\ tr # e.obj
             THEN IF k = 0
                  THEN <<Elem("TRNODE", tr), Elem(e.data, e.obj)>> \o clip
                  ELSE InsertAfter(clip, k, Elem(e.data, e.obj))
             ELSE <<Elem(e.data, e.obj)>> \o clip
        ELSE clip, LAMBDA c1 :
    rt_Surface_add_relation(objs, c1, lst, i + 1)))

AddArrayElems(objs, clip, rel, kids, i) ==
    IF i > Len(kids) THEN clip
    ELSE Let(rt_Surface_add_relation(objs, clip, <<Elem(rel, kids[i])>>, 1), LAMBDA c1 :
         AddArrayElems(objs, c1, rel, kids, i + 1))

(* add_relation as dispatched on object n: rt_Array::add_relation passes   *)
(* the list to every sub-object, rt_Object::add_relation does nothing      *)
RECURSIVE add_relation(_, _, _)
RECURSIVE AddRelationKids(_, _, _, _)
add_relation(objs, n, lst) ==
    IF RT_IS_ARRAY(Tag(n)) THEN AddRelationKids(objs, obj_arr(n), 1, lst)
    ELSE IF RT_IS_SURFACE(Tag(n))
    THEN [objs EXCEPT ![n].clip = rt_Surface_add_relation(objs, objs[n].clip, lst, 1)]
    ELSE objs

AddRelationKids(objs, kids, i, lst) ==
    IF i > Len(kids) THEN objs
    ELSE Let(add_relation(objs, kids[i], lst), LAMBDA o1 :
         AddRelationKids(o1, kids, i + 1, lst))

(* rt_Object::update_bvnode and rt_Array::update_bvnode *)
rt_Object_update_bvnode(objs, n, bvnode, mode) ==
    IF bvnode = n THEN objs
    ELSE IF mode /\ objs[n].bvnode = Null THEN [objs EXCEPT ![n].bvnode = bvnode]
    ELSE IF ~mode /\ objs[n].bvnode = bvnode THEN [objs EXCEPT ![n].bvnode = Null]
    ELSE objs

RECURSIVE update_bvnode(_, _, _, _)
RECURSIVE UpdateBvnodeKids(_, _, _, _, _)
update_bvnode(objs, n, bvnode, mode) ==
    Let(rt_Object_update_bvnode(objs, n, bvnode, mode), LAMBDA o1 :
    IF RT_IS_ARRAY(Tag(n)) THEN UpdateBvnodeKids(o1, obj_arr(n), 1, bvnode, mode)
        ELSE o1)

UpdateBvnodeKids(objs, kids, i, bvnode, mode) ==
    IF i > Len(kids) THEN objs
    ELSE Let(update_bvnode(objs, kids[i], bvnode, mode), LAMBDA o1 :
         UpdateBvnodeKids(o1, kids, i + 1, bvnode, mode))

(***************************************************************************)
(* The relation loop of rt_Array::update.  cur is the loop's state:        *)
(* obj_arr_l/obj_arr_r (the array whose obj_arr is selected, by node),     *)
(* obj_num_l/obj_num_r, lst (the pending template list) and acc.           *)
(***************************************************************************)
RelCursor(a) == [obj_arr_l |-> a, obj_num_l |-> obj_num(a),
                 obj_arr_r |-> a, obj_num_r |-> obj_num(a),
                 lst |-> <<>>, acc |-> 0]

(* a test that looks at the left index only *)
RelSkipped_left(cur, r) == r.obj1 >= cur.obj_num_l

(* the test at the head of the loop body: the relation is skipped *)
RelSkipped(cur, r) == r.obj1 >= cur.obj_num_l \/ r.obj2 >= cur.obj_num_r

(* a test that opens an accumulation inside an open one *)
AccumEnter_again(cur, r) == r.obj1 = -1 /\ r.obj2 >= 0

(* the test of a MINUS relation that opens an accumulation: an             *)
(* RT_ACCUM_ENTER marker goes to the template list                         *)
AccumEnter(cur, r) == r.obj1 = -1 /\ r.obj2 >= 0 /\ cur.acc = 0

(* one iteration of the loop for relation r of array a *)
rel_step(st, a, cur, r) ==
    IF RelSkipped(cur, r) THEN [st |-> st, cur |-> cur]
    ELSE
    LET L == ObjAt(cur.obj_arr_l, r.obj1)
    IN
    LET R == ObjAt(cur.obj_arr_r, r.obj2)
    IN
    LET minus == r.rel \in {RT_REL_MINUS_INNER, RT_REL_MINUS_OUTER}
    IN
    LET bound == r.rel \in {RT_REL_BOUND_ARRAY, RT_REL_BOUND_INDEX}
    IN
    LET index == r.rel = RT_REL_INDEX_ARRAY
    IN
    LET whole == r.rel \in {RT_REL_BOUND_ARRAY, RT_REL_UNTIE_ARRAY}
    IN
    LET single == r.rel \in {RT_REL_BOUND_INDEX, RT_REL_UNTIE_INDEX}
    IN
    (* which of obj_arr_l[obj1], obj_arr_r[obj2] the switch reads *)
    LET rdL0 == (index /\ r.obj1 >= 0 /\ r.obj2 >= -1)
                \/ (single /\ r.obj1 >= 0 /\ r.obj2 >= 0)
    IN
    LET rdR0 == (index /\ r.obj1 >= -1 /\ r.obj2 >= 0)
                \/ (minus /\ r.obj1 >= -1 /\ r.obj2 >= 0)
                \/ (whole /\ r.obj1 = -1 /\ r.obj2 >= 0)
                \/ (single /\ r.obj1 = -1 /\ r.obj2 >= 0)
                \/ (single /\ r.obj1 >= 0 /\ r.obj2 >= 0 /\ RT_IS_ARRAY(Tag(L)))
    IN
    (* RT_REL_INDEX_ARRAY *)
    LET selL == index /\ r.obj1 >= 0 /\ r.obj2 >= -1 /\ RT_IS_ARRAY(Tag(L))
    IN
    LET selR == index /\ r.obj1 >= -1 /\ r.obj2 >= 0 /\ RT_IS_ARRAY(Tag(R))
    IN
    (* RT_REL_MINUS_INNER, RT_REL_MINUS_OUTER, RT_REL_MINUS_ACCUM *)
    LET enter == minus /\ AccumEnter(cur, r)
    IN
    LET clipper == minus /\ r.obj1 >= -1 /\ r.obj2 >= 0
    IN
    LET push == minus /\ r.obj1 = -1 /\ r.obj2 >= 0
    IN
    LET leave == r.rel = RT_REL_MINUS_ACCUM /\ r.obj1 >= 0 /\ r.obj2 = -1 /\ cur.acc = 1
    IN
    LET lst1 == IF enter THEN <<Elem(RT_ACCUM_ENTER, Null)>> \o cur.lst ELSE cur.lst
    IN
    LET lst2 == IF push THEN <<Elem(r.rel, R)>> \o lst1
                ELSE IF leave THEN <<>> ELSE lst1
    IN
    LET acc1 == IF enter THEN 1 ELSE IF leave THEN 0 ELSE cur.acc
    IN
    (* elm with the elements its next pointer leads to *)
    LET elm == IF clipper /\ ~push THEN <<Elem(r.rel, R)>>
               ELSE IF push THEN lst2
               ELSE IF leave THEN <<Elem(RT_ACCUM_LEAVE, Null)>> \o cur.lst
               ELSE <<>>
    IN
    LET give == r.obj1 >= 0 /\ elm # <<>>
    IN
    (* RT_REL_BOUND_ARRAY .. RT_REL_UNTIE_INDEX: obj, arr and mode *)
    LET bo == IF whole /\ r.obj1 = -1 /\ r.obj2 >= 0 /\ RT_IS_ARRAY(Tag(R)) THEN R
              ELSE IF whole /\ r.obj1 = -1 /\ r.obj2 = -1 THEN a
              ELSE IF single /\ r.obj1 >= 0 /\ r.obj2 >= 0 /\ RT_IS_ARRAY(Tag(L)) THEN R
              ELSE IF single /\ r.obj1 = -1 /\ r.obj2 >= 0 THEN R
              ELSE Null
    IN
    LET ba == IF whole THEN bo
              ELSE IF single /\ r.obj1 >= 0 /\ r.obj2 >= 0 /\ RT_IS_ARRAY(Tag(L)) THEN L
              ELSE IF single /\ r.obj1 = -1 /\ r.obj2 >= 0 THEN a
              ELSE Null
    IN
    LET tie == bo # Null /\ ba # Null
    IN
    Let(IF give /\ L # Null THEN add_relation(st.obj, L, elm) ELSE st.obj, LAMBDA o1 :
    Let(IF tie /\ RT_OPTS_VARRAY \in opts THEN update_bvnode(o1, bo, ba, bound)
        ELSE o1, LAMBDA o2 :
    LET resetL == give \/ (tie /\ r.obj1 >= 0)
    IN
    LET resetR == clipper \/ (tie /\ r.obj2 >= 0)
    IN
    LET rd == (IF rdL0 \/ give
               THEN {[arr |-> cur.obj_arr_l, idx |-> r.obj1]} ELSE {})
              \cup (IF rdR0 THEN {[arr |-> cur.obj_arr_r, idx |-> r.obj2]} ELSE {})
    IN
    LET dn == [obj1 |-> r.obj1, obj2 |-> r.obj2, rel |-> r.rel,
               arr_l |-> cur.obj_arr_l, arr_r |-> cur.obj_arr_r]
    IN
    [st |-> [st EXCEPT !.obj = o2,
                           !.reads = [done |-> st.reads.done \cup {dn},
                                      idx |-> st.reads.idx \cup rd]],
         cur |-> [obj_arr_l |-> IF resetL THEN a ELSE IF selL THEN L ELSE cur.obj_arr_l,
                  obj_num_l |-> IF resetL THEN obj_num(a)
                                ELSE IF selL THEN obj_num(L) ELSE cur.obj_num_l,
                  obj_arr_r |-> IF resetR THEN a ELSE IF selR THEN R ELSE cur.obj_arr_r,
                  obj_num_r |-> IF resetR THEN obj_num(a)
                                ELSE IF selR THEN obj_num(R) ELSE cur.obj_num_r,
                  lst |-> lst2, acc |-> acc1]]))

RECURSIVE RelLoop(_, _, _, _)
RelLoop(st, a, cur, i) ==
    IF i > Len(scene.rel[a]) THEN st
    ELSE Let(rel_step(st, a, cur, scene.rel[a][i]), LAMBDA nx :
         RelLoop(nx.st, a, nx.cur, i + 1))

(* an update that keeps the custom clippers list of the frame before *)
rt_Surface_update_obj_kept(st, n, time, mtx, flags) ==
    rt_Node_update(st, n, time, mtx, flags)

(* rt_Surface::update, the RT_UPDATE_FLAG_OBJ part (Phase 0) *)
rt_Surface_update_obj(st, n, time, mtx, flags) ==
    Let(rt_Node_update(st, n, time, mtx, flags), LAMBDA s1 :
    LET o == [s1.obj[n] EXCEPT !.clip = <<>>]
    IN
    LET o1 == IF o.obj_changed # {} /\ o.trnode = n
                 /\ RT_UPDATE_FLAG_ROT \in o.mtx_has_trm
              THEN [o EXCEPT !.map = <<1, 2, 3>>, !.sgn = <<1, 1, 1>>]
              ELSE o
    IN
    [s1 EXCEPT !.obj = [s1.obj EXCEPT ![n] = o1]])

(* update(time, mtx, flags) as dispatched on the object's class, and       *)
(* rt_Array::update with its walk over obj_arr                             *)
RECURSIVE update(_, _, _, _, _)
RECURSIVE rt_Array_update(_, _, _, _, _)
RECURSIVE UpdateKids(_, _, _, _, _, _)
update(st, n, time, mtx, flags) ==
    CASE Tag(n) = "ARRAY" -> rt_Array_update(st, n, time, mtx, flags)
      [] Tag(n) = "CAMERA" -> rt_Camera_update(st, n, time, mtx, flags)
      [] Tag(n) = "LIGHT" -> rt_Light_update(st, n, time, mtx, flags)
      [] OTHER -> rt_Surface_update_obj(st, n, time, mtx, flags)

(* a test that forces RT_UPDATE_FLAG_ARR in every frame *)
ArrayForcesUpdate_always(time0, a) == TRUE

(* the test that forces RT_UPDATE_FLAG_ARR in rt_Array::update *)
ArrayForcesUpdate(time0, a) ==
    (time0 = -1 /\ Parent(a) = Null) \/ RT_OPTS_UPDATE \notin opts

rt_Array_update(st, a, time, mtx, flags) ==
    IF RT_UPDATE_FLAG_OBJ \notin flags THEN st
    ELSE
    Let(IF ArrayForcesUpdate(st.lit.time[a], a)
        THEN flags \cup {RT_UPDATE_FLAG_ARR} ELSE flags, LAMBDA fl :
    Let(rt_Node_update(st, a, time, mtx, fl), LAMBDA s1 :
    LET o == s1.obj[a]
    IN
    LET sep == o.trnode = a /\ o.mtx_has_trm = {RT_UPDATE_FLAG_SCL}
    IN
    Let(IF sep /\ o.obj_changed # {}
        THEN [l |-> Vec3(LAMBDA i : Vec3(LAMBDA c :
                         IF c = o.map[i] THEN o.sgn[i] ELSE 0)),
              p |-> Zero3, d |-> 1]
        ELSE o.axm, LAMBDA axm :
    LET s2 == [s1 EXCEPT !.obj = [s1.obj EXCEPT ![a].axm = axm]]
    IN
    Let(UpdateKids(s2, obj_arr(a), 1, time, IF sep THEN axm ELSE o.mtx,
                   fl \cup o.obj_has_trm \cup o.obj_changed), LAMBDA s3 :
    RelLoop(s3, a, RelCursor(a), 1)))))

UpdateKids(st, kids, i, time, mtx, flags) ==
    IF i > Len(kids) THEN st
    ELSE Let(update(st, kids[i], time, mtx, flags), LAMBDA s1 :
         UpdateKids(s1, kids, i + 1, time, mtx, flags))

(***************************************************************************)
(* Bounding and clipping boxes.  A box is [min, max]; the results of       *)
(* adjust_minmax and recalc_minmax are [bmin, bmax, cmin, cmax].           *)
(***************************************************************************)
INFV == <<INF, INF, INF>>
NINFV == <<-INF, -INF, -INF>>

(* rt_Surface::adjust_minmax: the cbox from the source box *)
rt_Surface_adjust_minmax(n, smin, smax) ==
    [cmin |-> Vec3(LAMBDA k : IF smin[k] > scene.min[n][k] THEN -INF ELSE smin[k]),
     cmax |-> Vec3(LAMBDA k : IF smax[k] < scene.max[n][k] THEN INF ELSE smax[k])]

(* the clamp of axes I, J to +-rad shared by the quadrics whose axis is K *)
ClampIJ(c, smin, smax, rad, bk, ck) ==
    [bmin |-> <<RT_MAX(smin[1], -rad), RT_MAX(smin[2], -rad), bk[1]>>,
     bmax |-> <<RT_MIN(smax[1], rad), RT_MIN(smax[2], rad), bk[2]>>,
     cmin |-> <<IF c.cmin[1] <= -rad THEN -INF ELSE c.cmin[1],
                IF c.cmin[2] <= -rad THEN -INF ELSE c.cmin[2], ck[1]>>,
     cmax |-> <<IF c.cmax[1] >= rad THEN INF ELSE c.cmax[1],
                IF c.cmax[2] >= rad THEN INF ELSE c.cmax[2], ck[2]>>]

rt_Plane_adjust_minmax(n, smin, smax) ==
    Let(rt_Surface_adjust_minmax(n, smin, smax), LAMBDA c :
    [bmin |-> <<smin[1], smin[2], 0>>, bmax |-> <<smax[1], smax[2], 0>>,
         cmin |-> <<c.cmin[1], c.cmin[2], -INF>>,
         cmax |-> <<c.cmax[1], c.cmax[2], INF>>])

rt_Cylinder_adjust_minmax(n, smin, smax) ==
    Let(rt_Surface_adjust_minmax(n, smin, smax), LAMBDA c :
    ClampIJ(c, smin, smax, RT_FABS(scene.prm[n]),
                <<smin[3], smax[3]>>, <<c.cmin[3], c.cmax[3]>>))

rt_Sphere_adjust_minmax(n, smin, smax) ==
    Let(rt_Surface_adjust_minmax(n, smin, smax), LAMBDA c :
    LET r0 == RT_FABS(scene.prm[n])
    IN
    LET top(k) == IF smin[k] > 0 THEN smin[k] ELSE IF smax[k] < 0 THEN -smax[k] ELSE 0
    IN
    LET r(k) == RT_SQRT(RT_MAX(scene.prm[n] * scene.prm[n] - top(k) * top(k), 0))
    IN
    (* rad[x] is lowered by the axes k with (k + 1) % 3 = x or (k + 2) % 3 = x *)
    Let(Vec3(LAMBDA x :
           RT_MIN(r0, RT_MIN(r(((x + 1) % 3) + 1), r((x % 3) + 1)))), LAMBDA rad :
    [bmin |-> Vec3(LAMBDA x : RT_MAX(smin[x], -rad[x])),
         bmax |-> Vec3(LAMBDA x : RT_MIN(smax[x], rad[x])),
         cmin |-> Vec3(LAMBDA x : IF c.cmin[x] <= -rad[x] THEN -INF ELSE c.cmin[x]),
         cmax |-> Vec3(LAMBDA x : IF c.cmax[x] >= rad[x] THEN INF ELSE c.cmax[x])]))

rt_Cone_adjust_minmax(n, smin, smax) ==
    Let(rt_Surface_adjust_minmax(n, smin, smax), LAMBDA c :
    LET top == RT_MAX(RT_FABS(smin[3]), RT_FABS(smax[3]))
    IN
    ClampIJ(c, smin, smax, top * RT_FABS(scene.prm[n]),
                <<smin[3], smax[3]>>, <<c.cmin[3], c.cmax[3]>>))

rt_Paraboloid_adjust_minmax(n, smin, smax) ==
    Let(rt_Surface_adjust_minmax(n, smin, smax), LAMBDA c :
    LET par == scene.prm[n]
    IN
    LET top == RT_MAX(IF par < 0 THEN -smin[3] ELSE smax[3], 0)
    IN
    ClampIJ(c, smin, smax, RT_SQRT(top * RT_FABS(par)),
                <<IF smin[3] <= 0 /\ par > 0 THEN 0 ELSE smin[3],
                  IF smax[3] >= 0 /\ par < 0 THEN 0 ELSE smax[3]>>,
                <<IF c.cmin[3] <= 0 /\ par > 0 THEN -INF ELSE c.cmin[3],
                  IF c.cmax[3] >= 0 /\ par < 0 THEN INF ELSE c.cmax[3]>>))

rt_Hyperboloid_adjust_minmax(n, smin, smax) ==
    Let(rt_Surface_adjust_minmax(n, smin, smax), LAMBDA c :
    LET top == RT_MAX(RT_FABS(smin[3]), RT_FABS(smax[3]))
    IN
    LET rat == scene.prm[n]
    IN
    ClampIJ(c, smin, smax, RT_SQRT(top * top * rat * rat + scene.hyp[n]),
                <<smin[3], smax[3]>>, <<c.cmin[3], c.cmax[3]>>))

(* adjust_minmax as dispatched on the surface's class *)
adjust_minmax(n, smin, smax) ==
    CASE Tag(n) = "PLANE" -> rt_Plane_adjust_minmax(n, smin, smax)
      [] Tag(n) = "CYLINDER" -> rt_Cylinder_adjust_minmax(n, smin, smax)
      [] Tag(n) = "SPHERE" -> rt_Sphere_adjust_minmax(n, smin, smax)
      [] Tag(n) = "CONE" -> rt_Cone_adjust_minmax(n, smin, smax)
      [] Tag(n) = "PARABOLOID" -> rt_Paraboloid_adjust_minmax(n, smin, smax)
      [] OTHER -> rt_Hyperboloid_adjust_minmax(n, smin, smax)

(* pps of invert_minmax and direct_minmax: zero for an own trnode, else pos *)
Pps(o, n) == IF o.trnode = n THEN Zero3 ELSE Vec3(LAMBDA k : o.mtx.p[k] \div o.mtx.d)

(* rt_Surface::invert_minmax: world-space box to local space *)
invert_minmax(o, n, smin, smax) ==
    Let(Pps(o, n), LAMBDA pps :
    Let(Vec3(LAMBDA x : IF smin[x] = -INF THEN -INF ELSE smin[x] - pps[x]), LAMBDA tmin :
    Let(Vec3(LAMBDA x : IF smax[x] = INF THEN INF ELSE smax[x] - pps[x]), LAMBDA tmax :
    [min |-> Vec3(LAMBDA i : IF o.sgn[i] > 0 THEN tmin[o.map[i]] ELSE -tmax[o.map[i]]),
         max |-> Vec3(LAMBDA i : IF o.sgn[i] > 0 THEN tmax[o.map[i]] ELSE -tmin[o.map[i]])])))

(* a local-space box to world space with the ends of a mirrored axis not   *)
(* exchanged                                                               *)
direct_minmax_unswapped(o, n, smin, smax) ==
    Let(Pps(o, n), LAMBDA pps :
    LET loc(x) == CHOOSE i \in 1..3 : o.map[i] = x
    IN
    Let(Vec3(LAMBDA x : IF o.sgn[loc(x)] > 0 THEN smin[loc(x)] ELSE -smin[loc(x)]), LAMBDA tmin :
    Let(Vec3(LAMBDA x : IF o.sgn[loc(x)] > 0 THEN smax[loc(x)] ELSE -smax[loc(x)]), LAMBDA tmax :
    [min |-> Vec3(LAMBDA x : IF tmin[x] = -INF THEN -INF ELSE tmin[x] + pps[x]),
         max |-> Vec3(LAMBDA x : IF tmax[x] = INF THEN INF ELSE tmax[x] + pps[x])])))

(* rt_Surface::direct_minmax: local-space box to world space *)
direct_minmax(o, n, smin, smax) ==
    Let(Pps(o, n), LAMBDA pps :
    LET loc(x) == CHOOSE i \in 1..3 : o.map[i] = x
    IN
    Let(Vec3(LAMBDA x : IF o.sgn[loc(x)] > 0 THEN smin[loc(x)] ELSE -smax[loc(x)]), LAMBDA tmin :
    Let(Vec3(LAMBDA x : IF o.sgn[loc(x)] > 0 THEN smax[loc(x)] ELSE -smin[loc(x)]), LAMBDA tmax :
    [min |-> Vec3(LAMBDA x : IF tmin[x] = -INF THEN -INF ELSE tmin[x] + pps[x]),
         max |-> Vec3(LAMBDA x : IF tmax[x] = INF THEN INF ELSE tmax[x] + pps[x])])))

(* rt_Surface::recalc_minmax with smin = smax = NULL: bbox and cbox from   *)
(* the original axis clippers                                              *)
recalc_minmax_init(o, n) ==
    Let(adjust_minmax(n, scene.min[n], scene.max[n]), LAMBDA a :
    Let(direct_minmax(o, n, a.bmin, a.bmax), LAMBDA b :
    Let(direct_minmax(o, n, a.cmin, a.cmax), LAMBDA c :
    [bmin |-> b.min, bmax |-> b.max, cmin |-> c.min, cmax |-> c.max])))

(* rt_Surface::recalc_minmax with bmin = bmax = NULL, called on clipper n: *)
(* the adjustments of the src box by n's shape accumulated into pmin, pmax *)
recalc_minmax_accum(o, n, smin, smax, pmin, pmax) ==
    Let(invert_minmax(o, n, smin, smax), LAMBDA t :
    Let(adjust_minmax(n, t.min, t.max), LAMBDA a :
    Let(Vec3(LAMBDA k : IF t.min[k] = a.bmin[k] THEN -INF ELSE a.bmin[k]), LAMBDA tmin :
    Let(Vec3(LAMBDA k : IF t.max[k] = a.bmax[k] THEN INF ELSE a.bmax[k]), LAMBDA tmax :
    Let(direct_minmax(o, n, tmin, tmax), LAMBDA d :
    [min |-> RT_VEC3_MAX(pmin, d.min), max |-> RT_VEC3_MIN(pmax, d.max)])))))

(* rt_Surface::recalc_minmax with all six given: the adjustments in the    *)
(* src box applied on top of the original axis clippers                    *)
recalc_minmax_apply(o, n, smin, smax) ==
    Let(invert_minmax(o, n, smin, smax), LAMBDA t :
    Let(adjust_minmax(n, RT_VEC3_MAX(t.min, scene.min[n]),
                         RT_VEC3_MIN(t.max, scene.max[n])), LAMBDA a :
    Let(direct_minmax(o, n, a.bmin, a.bmax), LAMBDA b :
    Let(direct_minmax(o, n, a.cmin, a.cmax), LAMBDA c :
    [bmin |-> b.min, bmax |-> b.max, cmin |-> c.min, cmax |-> c.max]))))

(* a list walk that takes no clipper into account *)
OuterClippers_none(objs, n, clip, k, skip) == <<>>

(* the clippers of the list that rt_Surface::update_minmax takes into      *)
(* account: outside accum segments, no array, no plane, same trnode,       *)
(* RT_REL_MINUS_OUTER; in list order                                       *)
RECURSIVE OuterClippers(_, _, _, _, _)
OuterClippers(objs, n, clip, k, skip) ==
    IF k > Len(clip) THEN <<>>
    ELSE
    LET e == clip[k]
    IN
    LET sk == IF e.obj = Null THEN 1 - skip ELSE skip
    IN
    LET out == e.obj = Null \/ sk = 1
               \/ Tag(e.obj) = "ARRAY" \/ Tag(e.obj) = "PLANE"
               \/ objs[e.obj].trnode # objs[n].trnode
               \/ e.data # RT_REL_MINUS_OUTER
    IN
    (IF out THEN <<>> ELSE <<e.obj>>) \o OuterClippers(objs, n, clip, k + 1, sk)

RECURSIVE AccumClippers(_, _, _, _, _)
AccumClippers(objs, cl, k, b, p) ==
    IF k > Len(cl) THEN p
    ELSE Let(recalc_minmax_accum(objs[cl[k]], cl[k], b.min, b.max, p.min, p.max), LAMBDA p1 :
         AccumClippers(objs, cl, k + 1, b, p1))

(* rt_Surface::update_minmax: the surface's fields after it; recalc tells  *)
(* whether recalc_minmax has been called on the surface's own boxes       *)
update_minmax(objs, n) ==
    LET o == [objs[n] EXCEPT !.srf_changed = objs[n].obj_changed, !.recalc = TRUE]
    IN
    LET direct == o.clip = <<>> \/ o.trnode = n \/ RT_OPTS_ADJUST \notin opts
    IN
    Let(recalc_minmax_init(o, n), LAMBDA d :
    Let(OuterClippers(objs, n, o.clip, 1, 0), LAMBDA cl :
    LET ch == o.srf_changed
              \cup UNION {objs[cl[k]].obj_changed : k \in 1..Len(cl)}
    IN
    Let(AccumClippers(objs, cl, 1, [min |-> d.bmin, max |-> d.bmax],
                      [min |-> NINFV, max |-> INFV]), LAMBDA p :
    Let(recalc_minmax_apply(o, n, p.min, p.max), LAMBDA f :
    IF direct
        THEN [o EXCEPT !.bmin = d.bmin, !.bmax = d.bmax, !.cmin = d.cmin, !.cmax = d.cmax]
        ELSE IF ch = {} THEN [o EXCEPT !.recalc = FALSE]
        ELSE [o EXCEPT !.srf_changed = ch,
                       !.bmin = f.bmin, !.bmax = f.bmax, !.cmin = f.cmin, !.cmax = f.cmax]))))

(* the corners of the bbox in the order of the vertices of rt_Quadric::update *)
(* (8) and rt_Plane::update (4)                                             *)
Corners(o, cnt) ==
    LET hi == o.bmax
    IN
    LET lo == o.bmin
    IN
    LET mp == o.map
    IN
    LET at(si, sj, sk) == 
            Vec3(LAMBDA x : IF x = mp[1] THEN (IF si THEN hi[x] ELSE lo[x])
                            ELSE IF x = mp[2] THEN (IF sj THEN hi[x] ELSE lo[x])
                            ELSE (IF sk THEN hi[x] ELSE lo[x]))
    IN
    LET top == <<at(TRUE, TRUE, TRUE), at(FALSE, TRUE, TRUE),
                 at(FALSE, FALSE, TRUE), at(TRUE, FALSE, TRUE)>>
    IN
    LET bot == <<at(TRUE, TRUE, FALSE), at(FALSE, TRUE, FALSE),
                 at(FALSE, FALSE, FALSE), at(TRUE, FALSE, FALSE)>>
    IN
    IF cnt = 4 THEN top ELSE top \o bot

(* the matrix the vertices go through: trnode's, the object's own, or none *)
VertsMatrix(objs, n) ==
    LET o == objs[n]
    IN
    IF o.trnode = Null THEN iden4
        ELSE IF o.trnode # n THEN objs[o.trnode].mtx
        ELSE o.mtx

(* rt_Surface::update_bounds on vertices vs, all over the denominator d:  *)
(* mid is n / d and the squared radius n / d^2                             *)
rt_Surface_update_bounds(vs, d) ==
    LET cnt == Len(vs)
    IN
    Let(Vec3(LAMBDA x : IF cnt = 4 THEN vs[1][x] + vs[2][x] + vs[3][x] + vs[4][x]
                        ELSE vs[1][x] + vs[2][x] + vs[3][x] + vs[4][x]
                             + vs[5][x] + vs[6][x] + vs[7][x] + vs[8][x]), LAMBDA sum :
    LET dff(i) == RT_VEC3_SUB(sum, VecScale(vs[i], cnt))
    IN
    LET dot(i) == RT_VEC3_DOT(dff(i), dff(i))
    IN
    LET far == CHOOSE i \in 1..cnt : \A j \in 1..cnt : dot(j) <= dot(i)
    IN
    IF cnt = 0
        THEN [mid |-> [n |-> Zero3, d |-> 1], rad2 |-> [n |-> 0, d |-> 1], rad |-> 0]
        ELSE [mid |-> [n |-> sum, d |-> cnt * d],
              rad2 |-> [n |-> dot(far), d |-> cnt * d],
              rad |-> (RT_SQRT(dot(far)) + cnt * d - 1) \div (cnt * d)])

(* the vertices: the corners cs (i-th onwards) taken through the matrix pm, *)
(* numerators over pm.d                                                    *)
RECURSIVE VertsThrough(_, _, _)
VertsThrough(pm, cs, i) ==
    IF i > Len(cs) THEN <<>>
    ELSE <<matrix_mul_vector(pm, cs[i]).n>> \o VertsThrough(pm, cs, i + 1)

(* rt_Plane::update and rt_Quadric::update, the RT_UPDATE_FLAG_SRF part    *)
(* (Phase 1), with rt_Surface::update below them: the surface's fields     *)
rt_Surface_update_srf(objs, n) ==
    Let(update_minmax(objs, n), LAMBDA o :
    IF o.srf_changed = {} \/ verts_num(n) = 0 THEN o
        ELSE Let(VertsMatrix(objs, n), LAMBDA pm :
             Let(Corners(o, verts_num(n)), LAMBDA cs :
             Let(VertsThrough(pm, cs, 1), LAMBDA vs :
             Let(rt_Surface_update_bounds(vs, pm.d), LAMBDA b :
             [o EXCEPT !.verts = [n |-> vs, d |-> pm.d],
                           !.mid = b.mid, !.rad2 = b.rad2, !.rad = b.rad])))))

(***************************************************************************)
(* Bounding spheres of arrays.  bs = [obj, w, x]: the objects, the writes  *)
(* logged so far and x, the object whose update is running; a write to a   *)
(* field of y is logged as <<x, y>>.  Lengths are taken on the grid.       *)
(***************************************************************************)
MidOf(o) == Vec3(LAMBDA k : o.mid.n[k] \div o.mid.d)
PosOf(o) == Vec3(LAMBDA k : o.mtx.p[k] \div o.mtx.d)
RT_VEC3_LEN(v) == RT_SQRT(RT_VEC3_DOT(v, v))

(* the widening of nd's bvnode at the end of the loop body *)
WidenBvnode(bs, nd) ==
    IF bs.obj[nd].bvnode = Null THEN bs
    ELSE LET arr == bs.obj[nd].bvnode
         IN
         Let(RT_VEC3_LEN(RT_VEC3_SUB(MidOf(bs.obj[arr]), MidOf(bs.obj[nd]))), LAMBDA len :
         LET far == len + bs.obj[nd].rad
         IN
         IF ~(bs.obj[arr].rad < far) THEN bs
             ELSE [bs EXCEPT !.obj = [bs.obj EXCEPT ![arr].rad = far],
                             !.w = bs.w \cup {<<bs.x, arr>>}])

(* rt_Array::update_bounds *)
RECURSIVE rt_Array_update_bounds(_, _)
RECURSIVE BoundsKids(_, _, _)
rt_Array_update_bounds(bs, a) ==
    LET o == bs.obj[a]
    IN
    LET tr == o.trnode
    IN
    Let(IF tr # Null /\ tr # a THEN RT_VEC3_ADD(PosOf(o), PosOf(bs.obj[tr]))
        ELSE PosOf(o), LAMBDA mid :
    LET b1 == [bs EXCEPT !.obj = [bs.obj EXCEPT ![a].mid = [n |-> mid, d |-> 1],
                                                ![a].rad = 0],
                         !.w = bs.w \cup {<<bs.x, a>>}]
    IN
    BoundsKids(b1, obj_arr(a), 1))

BoundsKids(bs, kids, i) ==
    IF i > Len(kids) THEN bs
    ELSE LET nd == kids[i]
         IN
         Let(IF RT_IS_ARRAY(Tag(nd)) THEN rt_Array_update_bounds(bs, nd) ELSE bs, LAMBDA b1 :
         Let(IF RT_IS_ARRAY(Tag(nd)) \/ RT_IS_SURFACE(Tag(nd))
             THEN WidenBvnode(b1, nd) ELSE b1, LAMBDA b2 :
         BoundsKids(b2, kids, i + 1)))

(***************************************************************************)
(* The scene: rt_Scene::render(time) and rt_Scene::update(time, action)    *)
(***************************************************************************)
Root == CHOOSE n \in Nodes : scene.par[n] = Null
Surfaces == {n \in Nodes : RT_IS_SURFACE(Tag(n))}
Arrays == {n \in Nodes : RT_IS_ARRAY(Tag(n))}
Cameras == {n \in Nodes : Tag(n) = "CAMERA"}
(* the scene's current camera: the first one of the registry's list *)
Cam == CHOOSE c \in Cameras : \A d \in Cameras : c <= d

NoReads == [done |-> {}, idx |-> {}]

(* Phase 0: the update of the hierarchy from the root *)
Phase0At(l, objs, time) ==
    update([lit |-> l, obj |-> objs, reads |-> NoReads], Root, time, iden4,
           {RT_UPDATE_FLAG_OBJ})
Phase0(objs, time) == Phase0At(lit, objs, time)

(* Phase 1, surfaces: update(time, iden4, RT_UPDATE_FLAG_SRF) of each one *)
RECURSIVE Phase1Surfaces(_, _, _)
Phase1Surfaces(objs, acc, n) ==
    IF n > Len(acc) THEN acc
    ELSE Let(IF n \in Surfaces
             THEN [acc EXCEPT ![n] = rt_Surface_update_srf(objs, n)] ELSE acc, LAMBDA a1 :
         Phase1Surfaces(objs, a1, n + 1))

(* Phase 1, arrays: update_bounds of each one, in the order ord *)
RECURSIVE Phase1Arrays(_, _, _)
Phase1Arrays(bs, ord, i) ==
    IF i > Len(ord) THEN bs
    ELSE Let(rt_Array_update_bounds([bs EXCEPT !.x = ord[i]], ord[i]), LAMBDA b1 :
         Phase1Arrays(b1, ord, i + 1))

Orders(S) == {q \in [1..Cardinality(S) -> S] : \A i, j \in 1..Cardinality(S) :
                                                   i # j => q[i] # q[j]}

Times == 0..MaxTime

RT_CAMERA_ACTIONS == {"MOVE_UP", "MOVE_DOWN", "MOVE_LEFT", "MOVE_RIGHT",
                      "MOVE_BACK", "MOVE_FORWARD", "ROTATE_LEFT", "ROTATE_RIGHT",
                      "ROTATE_UP", "ROTATE_DOWN"}

(* rt_Camera::update(time, action): the camera's transform after it; t is  *)
(* (time - obj->time) / 50 and every product with it is taken on the grid  *)
rt_Camera_update_action(trm, o, last, time, action) ==
    LET dt == time - last
    IN
    LET dpk == (scene.dps[3] * dt) \div 50
    IN
    LET dpi(f) == (scene.dps[1] * dt * f) \div 250
    IN
    LET dpj(f) == (scene.dps[2] * dt * f) \div 250
    IN
    LET dri == (scene.drt[1] * dt) \div 50
    IN
    LET drj == (scene.drt[2] * dt) \div 50
    IN
    LET p == trm.pos
    IN
    LET r == trm.rot
    IN
    LET zl == r[3] + dri
    IN
    LET zr == r[3] - dri
    IN
    LET xu == r[1] + drj
    IN
    LET xd == r[1] - drj
    IN
    CASE action = "MOVE_UP" -> [trm EXCEPT !.pos = <<p[1], p[2], p[3] + dpk>>]
          [] action = "MOVE_DOWN" -> [trm EXCEPT !.pos = <<p[1], p[2], p[3] - dpk>>]
          [] action = "MOVE_LEFT" ->
               [trm EXCEPT !.pos = <<p[1] - dpi(o.hor_cos), p[2] - dpi(o.hor_sin), p[3]>>]
          [] action = "MOVE_RIGHT" ->
               [trm EXCEPT !.pos = <<p[1] + dpi(o.hor_cos), p[2] + dpi(o.hor_sin), p[3]>>]
          [] action = "MOVE_BACK" ->
               [trm EXCEPT !.pos = <<p[1] + dpj(o.hor_sin), p[2] - dpj(o.hor_cos), p[3]>>]
          [] action = "MOVE_FORWARD" ->
               [trm EXCEPT !.pos = <<p[1] - dpj(o.hor_sin), p[2] + dpj(o.hor_cos), p[3]>>]
          [] action = "ROTATE_LEFT" ->
               [trm EXCEPT !.rot = <<r[1], r[2], IF zl >= 180 THEN zl - 360 ELSE zl>>]
          [] action = "ROTATE_RIGHT" ->
               [trm EXCEPT !.rot = <<r[1], r[2], IF zr <= -180 THEN zr + 360 ELSE zr>>]
          [] action = "ROTATE_UP" ->
               IF r[1] < 0
               THEN [trm EXCEPT !.rot = <<IF xu > 0 THEN 0 ELSE xu, r[2], r[3]>>]
               ELSE trm
          [] action = "ROTATE_DOWN" ->
               IF r[1] > -180
               THEN [trm EXCEPT !.rot = <<IF xd < -180 THEN -180 ELSE xd, r[2], r[3]>>]
               ELSE trm
          [] OTHER -> trm

(***************************************************************************)
(* Scene literals.  MkScene turns a sequence of node records into the      *)
(* literal; lengths are doubled where the sources have halves.             *)
(***************************************************************************)
NoBox == [min |-> NINFV, max |-> INFV]
Box(mn, mx) == [min |-> mn, max |-> mx]

AR(par, kids, rel, trm, anim) ==
    [tag |-> "ARRAY", par |-> par, kids |-> kids, rel |-> rel, trm |-> trm,
     anim |-> anim, box |-> NoBox, prm |-> 0, hyp |-> 0]
SF(tag, par, trm, box, prm, hyp) ==
    [tag |-> tag, par |-> par, kids |-> <<>>, rel |-> <<>>, trm |-> trm,
     anim |-> "NULL", box |-> box, prm |-> prm, hyp |-> hyp]
OB(tag, par, trm) ==
    [tag |-> tag, par |-> par, kids |-> <<>>, rel |-> <<>>, trm |-> trm,
     anim |-> "NULL", box |-> NoBox, prm |-> 0, hyp |-> 0]
Rel(o1, r, o2) == [obj1 |-> o1, rel |-> r, obj2 |-> o2]

MkScene(name, ns) ==
    [name |-> name,
     tag |-> [i \in 1..Len(ns) |-> ns[i].tag],
     par |-> [i \in 1..Len(ns) |-> ns[i].par],
     kids |-> [i \in 1..Len(ns) |-> ns[i].kids],
     rel |-> [i \in 1..Len(ns) |-> ns[i].rel],
     trm |-> [i \in 1..Len(ns) |-> ns[i].trm],
     anim |-> [i \in 1..Len(ns) |-> ns[i].anim],
     min |-> [i \in 1..Len(ns) |-> ns[i].box.min],
     max |-> [i \in 1..Len(ns) |-> ns[i].box.max],
     prm |-> [i \in 1..Len(ns) |-> ns[i].prm],
     hyp |-> [i \in 1..Len(ns) |-> ns[i].hyp],
     dps |-> <<250, 250, 50>>,
     drt |-> <<2250, 2250, 0>>]

Still == Trm(One3, Zero3, Zero3)

(* scn_test05: a plane, a scaled and turned cylinder, a light, a camera *)
scn_test05 ==
    MkScene("scn_test05",
      <<AR(Null, <<2, 3, 4, 6>>, <<>>, Still, "NULL"),
        SF("PLANE", 1, Trm(One3, <<90, 0, 0>>, <<0, 10, 0>>),
           Box(<<-10, -10, -INF>>, <<10, 10, INF>>), 0, 0),
        SF("CYLINDER", 1, Trm(<<2, 2, 1>>, <<-90, 0, 0>>, Zero3),
           Box(<<-INF, -INF, 0>>, <<INF, INF, 4>>), 3, 0),
        AR(1, <<5>>, <<>>, Still, "NULL"),
        OB("LIGHT", 4, Trm(One3, Zero3, <<0, 0, 9>>)),
        AR(1, <<7>>, <<>>, Still, "NULL"),
        OB("CAMERA", 6, Trm(One3, <<-90, 0, 45>>, <<4, -4, 0>>))>>)

(* scn_test04: two hyperboloids clipping each other, a camera *)
scn_test04 ==
    MkScene("scn_test04",
      <<AR(Null, <<2, 3, 4>>,
           <<Rel(1, RT_REL_MINUS_OUTER, 0), Rel(0, RT_REL_MINUS_INNER, 1)>>,
           Still, "NULL"),
        SF("HYPERBOLOID", 1, Still,
           Box(<<-INF, -INF, -3>>, <<INF, INF, 3>>), 2, 1),
        SF("HYPERBOLOID", 1, Trm(<<2, 2, 1>>, <<90, 0, 0>>, Zero3),
           Box(<<-INF, -INF, -3>>, <<INF, INF, 3>>), 2, 1),
        OB("CAMERA", 1, Trm(One3, <<-90, 0, 0>>, <<0, -12, 0>>))>>)

(* an array in an array in the root: a sphere clips a cylinder, the arrays *)
(* are bound for the bounding volume hierarchy; turn is the rotation of    *)
(* the outer array and anim its animation                                  *)
scn_nested(name, turn, anim) ==
    MkScene(name,
      <<AR(Null, <<2, 6, 7>>, <<Rel(-1, RT_REL_BOUND_ARRAY, -1)>>, Still, "NULL"),
        AR(1, <<3, 5>>,
           <<Rel(-1, RT_REL_BOUND_ARRAY, 0), Rel(1, RT_REL_MINUS_OUTER, 0)>>,
           Trm(One3, <<0, 0, turn>>, <<4, 0, 0>>), anim),
        AR(2, <<4>>, <<>>, Trm(One3, <<0, 0, 90>>, <<0, 2, 0>>), "NULL"),
        SF("SPHERE", 3, Trm(One3, Zero3, <<1, 0, 0>>), NoBox, 2, 0),
        SF("CYLINDER", 2, Still, Box(<<-INF, -INF, 0>>, <<INF, INF, 3>>), 1, 0),
        SF("PLANE", 1, Trm(<<-1, 1, 1>>, <<0, 180, 0>>, <<0, 0, -2>>),
           Box(<<-6, -6, -INF>>, <<6, 6, INF>>), 0, 0),
        OB("CAMERA", 1, Trm(One3, <<-90, 0, 0>>, <<0, -8, 0>>))>>)

(* a camera, a light and a plane mounted in a turned array *)
scn_rig ==
    MkScene("scn_rig",
      <<AR(Null, <<2>>, <<>>, Still, "NULL"),
        AR(1, <<3, 4, 5>>, <<>>, Trm(One3, <<0, 0, 45>>, <<0, 0, 2>>), "NULL"),
        OB("CAMERA", 2, Trm(One3, <<-90, 0, 0>>, <<0, -8, 0>>)),
        OB("LIGHT", 2, Trm(One3, Zero3, <<0, 0, 3>>)),
        SF("PLANE", 2, Still, Box(<<-6, -6, -INF>>, <<6, 6, INF>>), 0, 0)>>)

Scenes == {scn_test05, scn_test04, scn_rig,
           scn_nested("scn_turned", 45, "NULL"),
           scn_nested("scn_turning", 0, "an_turn")}

(***************************************************************************)
(* rt_Scene: construction, render(time), update(time, action)              *)
(***************************************************************************)
(* the literal's mutable fields as the object constructors leave them *)
LitOf(sc) == [trm |-> sc.trm, time |-> [i \in 1..Len(sc.tag) |-> -1]]
ObjsOf(sc) == [i \in 1..Len(sc.tag) |-> rt_Object(sc.trm[i])]

NoCall == [op |-> "none", time |-> -1, action |-> "none"]

(* the demo before its first main_step: eout = 0, no frame shown yet *)
NoDemo == [eout |-> 0, shown |-> 0, ret |-> 1, run |-> TRUE]

(* the state after the scene's construction on a literal of S with the    *)
(* optimization bits of O                                                  *)
InitOn(S, O) ==
    /\ scene \in S
    /\ opts \in O
    /\ lit = LitOf(scene)
    /\ obj = ObjsOf(scene)
    /\ frame = 0
    /\ acts = 0
    /\ call = NoCall
    /\ wlog = {}
    /\ reads = NoReads
    /\ insts = <<>>
    /\ demo = NoDemo
    /\ res = "ok"
    /\ built = <<>>

Init == InitOn(Scenes, SUBSET RT_OPTS_FULL)

(* render(time): Phase 0 from the root, then Phase 1 of every surface and  *)
(* array; the arrays' updates in the order ord                             *)
rt_Scene_render(time) ==
    /\ frame < MaxFrames
    /\ \E s0 \in {Phase0(obj, time)} :
       \E o1 \in {Phase1Surfaces(s0.obj, s0.obj, 1)} :
       \E ord \in Orders(Arrays) :
       \E bs \in {Phase1Arrays([obj |-> o1, w |-> {}, x |-> Null], ord, 1)} :
          /\ lit' = s0.lit
          /\ obj' = bs.obj
          /\ reads' = s0.reads
          /\ wlog' = bs.w \cup {<<n, n>> : n \in Surfaces}
    /\ frame' = frame + 1
    /\ call' = [op |-> "render", time |-> time, action |-> "none"]
    /\ UNCHANGED <<scene, opts, acts, insts, demo, res, built>>

(* update(time, action): the action applied to the current camera *)
rt_Scene_update(time, action) ==
    /\ acts < MaxActs
    /\ Cameras # {}
    /\ lit' = [lit EXCEPT !.trm[Cam] =
                  rt_Camera_update_action(lit.trm[Cam], obj[Cam], lit.time[Cam],
                                          time, action)]
    /\ obj' = [obj EXCEPT ![Cam].cam_changed = {RT_UPDATE_FLAG_ARR}]
    /\ acts' = acts + 1
    /\ call' = [op |-> "update", time |-> time, action |-> action]
    /\ UNCHANGED <<scene, opts, frame, wlog, reads, insts, demo, res, built>>

Render == \E time \in Times : rt_Scene_render(time)

Next == Render

(* the rendering loop: every scene under every set of optimization bits *)
Spec == Init /\ [][Next]_vars

(***************************************************************************)
(* The rendering loop with camera input between the frames                 *)
(***************************************************************************)
InputScenes == {scn_test04, scn_nested("scn_turning", 0, "an_turn")}
InputActions == {"MOVE_FORWARD"}

InitInput == InitOn(InputScenes, {RT_OPTS_NONE, RT_OPTS_FULL})

Update == \E time \in Times : \E action \in InputActions : rt_Scene_update(time, action)

NextInput == Render \/ Update

SpecInput == InitInput /\ [][NextInput]_vars

(***************************************************************************)
(* Surfaces of every variant under every axis clipper box: one frame after *)
(* the other of a scene with one surface, alone or clipped by the outer    *)
(* side of a sphere, in an array that is turned or not                     *)
(***************************************************************************)
BoxSpans == {<<-INF, INF>>, <<-1, 1>>, <<2, 3>>}
BoxHeights == {<<-INF, INF>>, <<0, 2>>, <<2, 3>>}
BoxParams == {-1, 2}
BoxTurns == {0, 45}
BoxRotations == {Zero3, <<90, 0, 0>>}

scn_box(tag, ij, k, prm, turn, rot, rel) ==
    MkScene("scn_box",
      <<AR(Null, <<2, 5>>, <<>>, Still, "NULL"),
        AR(1, <<3, 4>>, rel, Trm(One3, <<0, 0, turn>>, <<1, 0, 0>>), "NULL"),
        SF(tag, 2, Trm(One3, rot, Zero3),
           Box(<<ij[1], ij[1], k[1]>>, <<ij[2], ij[2], k[2]>>), prm, 1),
        SF("SPHERE", 2, Trm(One3, Zero3, <<1, 0, 0>>), NoBox, 2, 0),
        OB("CAMERA", 1, Trm(One3, <<-90, 0, 0>>, <<0, -8, 0>>))>>)

BoxScenes ==
    {scn_box(tag, ij, k, prm, turn, rot, rel) :
        tag \in SurfaceTags, ij \in BoxSpans, k \in BoxHeights, prm \in BoxParams,
        turn \in BoxTurns, rot \in BoxRotations,
        rel \in {<<>>, <<Rel(0, RT_REL_MINUS_OUTER, 1)>>}}

InitBox == InitOn(BoxScenes, {RT_OPTS_NONE, RT_OPTS_FULL})

NextBox == rt_Scene_render(0)

SpecBox == InitBox /\ [][NextBox]_vars

(***************************************************************************)
(* Several scenes built on one scene literal: construction, rendering and  *)
(* destruction of each one.  insts holds the scenes built so far, each     *)
(* with its objects (and their otm copies) and whether it is still alive.  *)
(***************************************************************************)
MaxScenes == 2          \* scenes built on the literal per behaviour

LitScenes == {scn_test04, scn_nested("scn_turning", 0, "an_turn"),
              scn_nested("scn_turned", 45, "an_turn")}

(* the literal as its static initializer leaves it, no scene built yet *)
InitLit ==
    /\ scene \in LitScenes
    /\ opts \in {RT_OPTS_NONE, RT_OPTS_FULL}
    /\ lit = [trm |-> scene.trm, time |-> [i \in 1..Len(scene.tag) |-> 0]]
    /\ obj = <<>>
    /\ frame = 0
    /\ acts = 0
    /\ call = NoCall
    /\ wlog = {}
    /\ reads = NoReads
    /\ insts = <<>>
    /\ demo = NoDemo
    /\ res = "ok"
    /\ built = <<>>

(* new rt_Scene on the literal: every node's constructor copies obj->trm   *)
(* into otm and sets obj->time to -1                                       *)
rt_Scene_construct ==
    /\ Len(insts) < MaxScenes
    /\ insts' = Append(insts, [live |-> TRUE,
                               obj |-> [n \in Nodes |-> rt_Object(lit.trm[n])]])
    /\ lit' = [lit EXCEPT !.time = [n \in Nodes |-> -1]]
    /\ call' = [op |-> "construct", time |-> -1, action |-> "none"]
    /\ UNCHANGED <<scene, opts, obj, frame, acts, wlog, reads, demo, res, built>>

(* render(time) of the i-th scene built on the literal *)
rt_Scene_render_of(i, time) ==
    /\ frame < MaxFrames
    /\ insts[i].live
    /\ \E s0 \in {Phase0(insts[i].obj, time)} :
       \E o1 \in {Phase1Surfaces(s0.obj, s0.obj, 1)} :
       \E ord \in Orders(Arrays) :
       \E bs \in {Phase1Arrays([obj |-> o1, w |-> {}, x |-> Null], ord, 1)} :
          /\ lit' = s0.lit
          /\ insts' = [insts EXCEPT ![i].obj = bs.obj]
          /\ reads' = s0.reads
          /\ wlog' = bs.w \cup {<<n, n>> : n \in Surfaces}
    /\ frame' = frame + 1
    /\ call' = [op |-> "render", time |-> time, action |-> "none"]
    /\ UNCHANGED <<scene, opts, obj, acts, demo, res, built>>

(* delete of the i-th scene: every node's destructor writes otm back *)
rt_Scene_destroy(i) ==
    /\ insts[i].live
    /\ lit' = [lit EXCEPT !.trm = [n \in Nodes |-> insts[i].obj[n].otm]]
    /\ insts' = [insts EXCEPT ![i].live = FALSE]
    /\ call' = [op |-> "destroy", time |-> -1, action |-> "none"]
    /\ UNCHANGED <<scene, opts, obj, frame, acts, wlog, reads, demo, res, built>>

RenderOf == \E i \in 1..Len(insts) : \E time \in Times : rt_Scene_render_of(i, time)

Destroy == \E i \in 1..Len(insts) : rt_Scene_destroy(i)

NextLit == rt_Scene_construct \/ RenderOf \/ Destroy

SpecLit == InitLit /\ [][NextLit]_vars

(***************************************************************************)
(* Relation lists: a root array over a small and a large sub-array, with   *)
(* every relation kind and every pair of child indices in -2..MaxIdx,      *)
(* alone or after an INDEX_ARRAY relation has selected sub-arrays.         *)
(***************************************************************************)
MaxIdx == 3             \* child indices of the relations are -2..MaxIdx

RelIdx == -2..MaxIdx
RelKinds == {RT_REL_INDEX_ARRAY, RT_REL_MINUS_INNER, RT_REL_MINUS_OUTER,
             RT_REL_MINUS_ACCUM, RT_REL_BOUND_ARRAY, RT_REL_UNTIE_ARRAY,
             RT_REL_BOUND_INDEX, RT_REL_UNTIE_INDEX}
RelHeads == {<<>>} \cup {<<Rel(i, RT_REL_INDEX_ARRAY, j)>> : i, j \in -1..1}
RelLists == {h \o <<Rel(i, k, j)>> : h \in RelHeads, k \in RelKinds, i, j \in RelIdx}

scn_rel(rel) ==
    MkScene("scn_rel",
      <<AR(Null, <<2, 4>>, rel, Still, "NULL"),
        AR(1, <<3>>, <<>>, Trm(One3, Zero3, <<-3, 0, 0>>), "NULL"),
        SF("SPHERE", 2, Still, NoBox, 1, 0),
        AR(1, <<5, 6, 7>>, <<>>, Trm(One3, Zero3, <<3, 0, 0>>), "NULL"),
        SF("PLANE", 4, Still, Box(<<-2, -2, -INF>>, <<2, 2, INF>>), 0, 0),
        SF("CYLINDER", 4, Still, Box(<<-INF, -INF, 0>>, <<INF, INF, 2>>), 1, 0),
        OB("CAMERA", 4, Trm(One3, <<-90, 0, 0>>, <<0, -8, 0>>))>>)

RelScenes == {scn_rel(rel) : rel \in RelLists} \cup {scn_test04}

InitRel == InitOn(RelScenes, {RT_OPTS_FULL})

NextRel == rt_Scene_render(0)

SpecRel == InitRel /\ [][NextRel]_vars

(***************************************************************************)
(* Accumulations: under a turned root, a plane clipped by a sphere and by  *)
(* a turned array of two spheres and a turned cylinder, through every list *)
(* of at most MaxRels relations that accumulate (left index -1), clip      *)
(* directly or close an accumulation.                                      *)
(***************************************************************************)
MaxRels == 4            \* relations in a list

AccRels == {Rel(-1, RT_REL_MINUS_OUTER, 0), Rel(-1, RT_REL_MINUS_INNER, 1),
            Rel(2, RT_REL_MINUS_OUTER, 0), Rel(2, RT_REL_MINUS_ACCUM, -1)}

RECURSIVE SeqsUpTo(_, _)
SeqsUpTo(S, n) ==
    IF n = 0 THEN {<<>>}
    ELSE LET T == SeqsUpTo(S, n - 1)
         IN T \cup {<<x>> \o t : x \in S, t \in {t \in T : Len(t) = n - 1}}

scn_acc(rel) ==
    MkScene("scn_acc",
      <<AR(Null, <<2, 6, 7, 8>>, rel, Trm(One3, <<0, 0, 45>>, Zero3), "NULL"),
        AR(1, <<3, 4, 5>>, <<>>, Trm(One3, <<0, 0, 45>>, <<-3, 0, 0>>), "NULL"),
        SF("SPHERE", 2, Still, NoBox, 1, 0),
        SF("CYLINDER", 2, Trm(One3, <<45, 0, 0>>, <<0, 0, 1>>),
           Box(<<-INF, -INF, 0>>, <<INF, INF, 2>>), 1, 0),
        SF("SPHERE", 2, Trm(One3, Zero3, <<0, 2, 0>>), NoBox, 1, 0),
        SF("SPHERE", 1, Trm(One3, Zero3, <<3, 0, 0>>), NoBox, 2, 0),
        SF("PLANE", 1, Still, Box(<<-6, -6, -INF>>, <<6, 6, INF>>), 0, 0),
        OB("CAMERA", 1, Trm(One3, <<-90, 0, 0>>, <<0, -8, 0>>))>>)

AccScenes == {scn_acc(rel) : rel \in SeqsUpTo(AccRels, MaxRels)}

InitAcc == InitOn(AccScenes, {RT_OPTS_FULL})

NextAcc == rt_Scene_render(0)

SpecAcc == InitAcc /\ [][NextAcc]_vars

(***************************************************************************)
(* The demo's event loop: main_step once per frame until it returns 0,     *)
(* then main_term                                                          *)
(***************************************************************************)
RK_KEYS == {"NONE", "W", "ESCAPE"}
StepScenes == {scn_test04, scn_test05}

InitStep == InitOn(StepScenes, {RT_OPTS_NONE, RT_OPTS_FULL})

(* what the outer loop does with main_step's result: it goes on while the  *)
(* result is not 0, the value main_step also returns on RK_ESCAPE          *)
EventLoopContinues(ret) == ret # 0

(* the literal and the camera after the calls main_step makes for held keys *)
HeldKeys(key, time) ==
    IF key = "W" /\ Cameras # {}
    THEN [lit |-> [lit EXCEPT !.trm[Cam] =
                      rt_Camera_update_action(lit.trm[Cam], obj[Cam], lit.time[Cam],
                                              time, "MOVE_FORWARD")],
          obj |-> [obj EXCEPT ![Cam].cam_changed = {RT_UPDATE_FLAG_ARR}]]
    ELSE [lit |-> lit, obj |-> obj]

(* main_step: key is the key held or toggled, time is cur_time, thrown is  *)
(* whether a worker thread reports an exception during this frame          *)
main_step(key, time, thrown) ==
    /\ demo.run
    /\ frame < MaxFrames
    /\ IF key = "ESCAPE"
       THEN /\ demo' = [demo EXCEPT !.ret = 0, !.run = EventLoopContinues(0)]
            /\ UNCHANGED <<lit, obj, reads, wlog, frame>>
       ELSE /\ \E k0 \in {HeldKeys(key, time)} :
               \E s0 \in {Phase0At(k0.lit, k0.obj, time)} :
               \E o1 \in {Phase1Surfaces(s0.obj, s0.obj, 1)} :
               \E ord \in Orders(Arrays) :
               \E bs \in {Phase1Arrays([obj |-> o1, w |-> {}, x |-> Null], ord, 1)} :
                  /\ lit' = s0.lit
                  /\ obj' = bs.obj
                  /\ reads' = s0.reads
                  /\ wlog' = bs.w \cup {<<n, n>> : n \in Surfaces}
            /\ frame' = frame + 1
            /\ \E eout \in {IF thrown THEN 1 ELSE demo.eout} :
               \E ret \in {IF eout # 0 THEN 0 ELSE 1} :
                  demo' = [eout |-> eout,
                           shown |-> IF eout # 0 THEN demo.shown ELSE demo.shown + 1,
                           ret |-> ret,
                           run |-> EventLoopContinues(ret)]
    /\ call' = [op |-> "main_step", time |-> time, action |-> key]
    /\ UNCHANGED <<scene, opts, acts, insts, res, built>>

(* main_term: the scenes are deleted once the loop is over *)
main_term ==
    /\ ~demo.run
    /\ call.op # "main_term"
    /\ lit' = [lit EXCEPT !.trm = [n \in Nodes |-> obj[n].otm]]
    /\ call' = [op |-> "main_term", time |-> -1, action |-> "none"]
    /\ UNCHANGED <<scene, opts, obj, frame, acts, wlog, reads, insts, demo, res, built>>

Step == \E key \in RK_KEYS : \E time \in Times : \E thrown \in BOOLEAN :
           main_step(key, time, thrown)

NextStep == Step \/ main_term

SpecStep == InitStep /\ [][NextStep]_vars

(***************************************************************************)
(* Construction of the object tree from a literal with null pointers.      *)
(* scene.nul is the set of null pointers of the literal: <<n, f>> for      *)
(* field f of node n, f one of "obj" (the rt_OBJECT record itself),        *)
(* "pobj", "pmat_outer", "pmat_inner" (the material given with the        *)
(* object), "side_outer", "side_inner" (the pmat of the surface's side).   *)
(***************************************************************************)
MaxNull == 2

Slots(sc) ==
    {<<n, "obj">> : n \in {n \in 1..Len(sc.tag) : sc.par[n] = Null}}
    \cup {<<n, "pobj">> : n \in 1..Len(sc.tag)}
    \cup {<<n, f>> : n \in {n \in 1..Len(sc.tag) : sc.tag[n] \in SurfaceTags},
                     f \in {"pmat_outer", "pmat_inner", "side_outer", "side_inner"}}

WithNull(sc, N) == [f \in DOMAIN sc \cup {"nul"} |-> IF f = "nul" THEN N ELSE sc[f]]

BuildScenes == UNION {{WithNull(sc, N) : N \in {N \in SUBSET Slots(sc) :
                                                    Cardinality(N) <= MaxNull}} :
                      sc \in {scn_test05, scn_test04}}

IsNull(n, f) == <<n, f>> \in scene.nul

(* rt_Material::rt_Material for side sd ("outer", "inner") of surface n:   *)
(* "ok", "exception", or "ub" when a null pointer is read through          *)
rt_Material(n, sd) ==
    IF IsNull(n, "pmat_" \o sd) /\ IsNull(n, "pobj") THEN "ub"
    ELSE IF IsNull(n, "pmat_" \o sd) /\ IsNull(n, "side_" \o sd) THEN "exception"
    ELSE IF IsNull(n, "pobj") THEN "ub"
    ELSE "ok"

(* the first of the results that is not "ok" *)
Then(r1, r2) == IF r1 = "ok" THEN r2 ELSE r1

(* the constructors: rt_Object, then the object's class, an array's        *)
(* elements in their order                                                 *)
RECURSIVE Construct(_)
RECURSIVE ConstructKids(_, _)
Construct(n) ==
    IF IsNull(n, "obj") THEN "exception"
    ELSE CASE RT_IS_ARRAY(Tag(n)) ->
                IF IsNull(n, "pobj") /\ Len(scene.kids[n]) > 0 THEN "ub"
                ELSE ConstructKids(scene.kids[n], 1)
           [] Tag(n) \in {"CAMERA", "LIGHT"} ->
                IF IsNull(n, "pobj") THEN "ub" ELSE "ok"
           [] OTHER ->
                Then(rt_Material(n, "outer"),
                     Then(rt_Material(n, "inner"),
                          IF IsNull(n, "pobj") THEN "ub" ELSE "ok"))
ConstructKids(kids, i) ==
    IF i > Len(kids) THEN "ok"
    ELSE Then(Construct(kids[i]), ConstructKids(kids, i + 1))

(* what a read through a null pointer can end in *)
Outcomes(r) == IF r = "ub" THEN {"fault", "ok"} ELSE {r}

InitBuild ==
    /\ scene \in BuildScenes
    /\ opts \in {RT_OPTS_FULL}
    /\ lit = [trm |-> scene.trm, time |-> [i \in 1..Len(scene.tag) |-> 0]]
    /\ obj = <<>>
    /\ frame = 0
    /\ acts = 0
    /\ call = NoCall
    /\ wlog = {}
    /\ reads = NoReads
    /\ insts = <<>>
    /\ demo = NoDemo
    /\ res = "ok"
    /\ built = <<>>

(* new rt_Scene on the literal *)
rt_Scene_build ==
    /\ call.op = "none"
    /\ res' \in Outcomes(Construct(Root))
    /\ obj' = IF res' = "ok" THEN ObjsOf(scene) ELSE obj
    /\ lit' = IF res' = "ok" THEN LitOf(scene) ELSE lit
    /\ call' = [op |-> "construct", time |-> -1, action |-> "none"]
    /\ UNCHANGED <<scene, opts, frame, acts, wlog, reads, insts, demo, built>>

NextBuild == rt_Scene_build

SpecBuild == InitBuild /\ [][NextBuild]_vars

(***************************************************************************)
(* The constructor of an array on literals with unsupported tags: a root   *)
(* array over up to MaxKids children of supported and unsupported tags.    *)
(* RT_TAG_SURFACE_MAX and RT_TAG_MAX are tags no case of the switch takes. *)
(***************************************************************************)
MaxKids == 3            \* children of the root array

CtorTags == {"PLANE", "CAMERA", "ARRAY", "SURFACE_MAX", "MAX"}

scn_mix(tags) ==
    MkScene("scn_mix",
      <<AR(Null, [i \in 1..Len(tags) |-> i + 1], <<>>, Still, "NULL")>>
      \o [i \in 1..Len(tags) |->
             IF tags[i] = "ARRAY" THEN AR(1, <<>>, <<>>, Still, "NULL")
             ELSE IF tags[i] = "PLANE" THEN SF("PLANE", 1, Still, NoBox, 0, 0)
             ELSE OB(tags[i], 1, Still)])

CtorScenes == {scn_mix(tags) : tags \in SeqsUpTo(CtorTags, MaxKids)}

(* a loop body that keeps the slot of an unsupported child *)
CtorStep_slot(c, kid) ==
    IF Tag(kid) \in SupportedTags
    THEN [c EXCEPT !.obj_arr[c.j] = kid, !.j = c.j + 1]
    ELSE [c EXCEPT !.obj_num = c.obj_num - 1, !.j = c.j + 1]

(* the body of the loop of rt_Array::rt_Array for child kid: c is          *)
(* [j, obj_num, obj_arr], obj_arr indexed from 0, Null where the allocated *)
(* slot has not been written                                               *)
CtorStep(c, kid) ==
    IF Tag(kid) \in SupportedTags
    THEN [c EXCEPT !.obj_arr[c.j] = kid, !.j = c.j + 1]
    ELSE [c EXCEPT !.obj_num = c.obj_num - 1]

RECURSIVE CtorLoop(_, _, _)
CtorLoop(c, kids, i) ==
    IF i > Len(kids) THEN c
    ELSE Let(CtorStep(c, kids[i]), LAMBDA c1 : CtorLoop(c1, kids, i + 1))

(* rt_Array::rt_Array: obj_num and obj_arr of array a *)
rt_Array(a) ==
    LET kids == scene.kids[a]
    IN
    Let(CtorLoop([j |-> 0, obj_num |-> Len(kids),
                  obj_arr |-> [k \in 0..(Len(kids) - 1) |-> Null]], kids, 1), LAMBDA c :
    [obj_num |-> c.obj_num, obj_arr |-> c.obj_arr])

InitCtor ==
    /\ scene \in CtorScenes
    /\ opts \in {RT_OPTS_FULL}
    /\ lit = [trm |-> scene.trm, time |-> [i \in 1..Len(scene.tag) |-> 0]]
    /\ obj = <<>>
    /\ frame = 0
    /\ acts = 0
    /\ call = NoCall
    /\ wlog = {}
    /\ reads = NoReads
    /\ insts = <<>>
    /\ demo = NoDemo
    /\ res = "ok"
    /\ built = <<>>

(* new rt_Scene on the literal: every array's constructor has run *)
rt_Scene_ctor ==
    /\ call.op = "none"
    /\ built' = [a \in Arrays |-> rt_Array(a)]
    /\ obj' = ObjsOf(scene)
    /\ lit' = LitOf(scene)
    /\ call' = [op |-> "construct", time |-> -1, action |-> "none"]
    /\ UNCHANGED <<scene, opts, frame, acts, wlog, reads, insts, demo, res>>

NextCtor == rt_Scene_ctor

SpecCtor == InitCtor /\ [][NextCtor]_vars

(***************************************************************************)
(* The camera under rotate actions between the frames                      *)
(***************************************************************************)
(* a plane and a camera looking along rot = <<rx, 0, rz>> *)
scn_view(rx, rz) ==
    MkScene("scn_view",
      <<AR(Null, <<2, 3>>, <<>>, Still, "NULL"),
        SF("PLANE", 1, Still, Box(<<-6, -6, -INF>>, <<6, 6, INF>>), 0, 0),
        OB("CAMERA", 1, Trm(One3, <<rx, 0, rz>>, <<0, -8, 0>>))>>)

CamViews == {<<-135, 135>>, <<-90, 0>>, <<-45, -135>>}
CamScenes == {scn_view(v[1], v[2]) : v \in CamViews}
CamActions == {"ROTATE_LEFT", "ROTATE_RIGHT", "ROTATE_UP", "ROTATE_DOWN"}

InitCam == InitOn(CamScenes, {RT_OPTS_FULL})

Rotate == \E time \in Times : \E action \in CamActions : rt_Scene_update(time, action)

NextCam == Render \/ Rotate

SpecCam == InitCam /\ [][NextCam]_vars

(***************************************************************************)
(* The demo's command line: args_init.  A token is a sequence of           *)
(* characters; argv[0] is left out, so args[k] is argv[k] and argc is      *)
(* Len(args) + 1.                                                          *)
(***************************************************************************)
MaxArgs == 4            \* tokens after the program's name

RT_FSAA_NO == 0
RT_FSAA_4X == 1
RT_SIMD_WIDTH32 == 4
(* RT_ARR_SIZE(sc_rt): the demo scenes *)
RT_ARR_SIZE_sc_rt == 3

Digits == <<"0", "1", "2", "3", "4", "5", "6", "7", "8", "9">>
Alphabet == <<"a", "b", "c", "d", "e", "f", "g", "h", "i", "j", "k", "l", "m",
              "n", "o", "p", "q", "r", "s", "t", "u", "v", "w", "x", "y", "z">>
IndexOf(s, ch) == CHOOSE i \in 1..Len(s) : s[i] = ch
IsDigit(ch) == \E i \in 1..Len(Digits) : Digits[i] = ch

(* the character's code *)
Ord(ch) ==
    IF ch = "-" THEN 45
    ELSE IF IsDigit(ch) THEN 47 + IndexOf(Digits, ch)
    ELSE 96 + IndexOf(Alphabet, ch)

(* a | b, a & b on non-negative integers *)
RECURSIVE BitOr(_, _)
BitOr(a, b) ==
    IF a = 0 THEN b
    ELSE IF b = 0 THEN a
    ELSE 2 * BitOr(a \div 2, b \div 2) + (IF a % 2 = 1 \/ b % 2 = 1 THEN 1 ELSE 0)
RECURSIVE BitAnd(_, _)
BitAnd(a, b) ==
    IF a = 0 \/ b = 0 THEN 0
    ELSE 2 * BitAnd(a \div 2, b \div 2) + (IF a % 2 = 1 /\ b % 2 = 1 THEN 1 ELSE 0)
Shl(a, n) == a * 2 ^ n
Shr(a, n) == a \div 2 ^ n

(* simd_init: the target-selection value from quad-factor, sub-variant and *)
(* vector-size, in the build for targets other than x86-64 and POWER       *)
simd_init(q_simd, s_type, v_size) ==
    LET s0 == IF v_size = 0 \/ v_size = 1
              THEN BitOr(Shl(q_simd, 2), Shl(s_type, 8)) ELSE 0
    IN
    IF v_size = 2 \/ v_size = 4
    THEN BitOr(q_simd * 4 * v_size, Shl(s_type, 8))
    ELSE s0

(* the globals of the demo as their static initializers leave them; thnum  *)
(* and w_size are the build's RT_THREADS_NUM and window default            *)
RootGlobals(thnum, w_size) ==
    [d |-> RT_ARR_SIZE_sc_rt - 1, c |-> 0, f_num |-> -1, f_time |-> -1, img_id |-> -1, b_time |-> 0,
     e_time |-> -1, q_simd |-> 0, s_type |-> 0, v_size |-> 0, t_pool |-> 0,
     w_size |-> w_size, x_res |-> 800, y_res |-> 480, x_row |-> 800,
     x_new |-> 0, y_new |-> 0, l_time |-> 500,
     l_mode |-> FALSE, h_mode |-> FALSE, o_mode |-> FALSE, u_mode |-> FALSE,
     a_mode |-> FALSE, fsaa |-> 0, simd |-> 0, type |-> 0, thnum |-> thnum]

ArgValued == <<"d", "c", "f", "g", "i", "b", "e", "q", "s", "v", "t", "w", "x",
               "y", "r">>
ArgFlags == <<"l", "h", "o", "u", "a">>

(* for (l = strlen, r = 1; l > 0; l--, r *= 10) t += (tok[l-1] - '0') * r *)
RECURSIVE ArgDecimal(_, _, _, _)
ArgDecimal(tok, l, r, t) ==
    IF l = 0 THEN t
    ELSE ArgDecimal(tok, l - 1, r * 10, t + (Ord(tok[l]) - Ord("0")) * r)

(* t after the option's conversion of tok, t being its value before: -q,   *)
(* -s, -v, -w take the first character, -t adds to t, the rest add to 0    *)
ArgParse(name, tok, t) ==
    IF name \in {"q", "s", "v", "w"} THEN Ord(tok[1]) - Ord("0")
    ELSE IF name = "t" THEN ArgDecimal(tok, Len(tok), 1, t)
    ELSE ArgDecimal(tok, Len(tok), 1, 0)

(* the option's range test *)
ArgAccepts(name, tok, t) ==
    CASE name = "d" -> t >= 1 /\ t <= RT_ARR_SIZE_sc_rt
      [] name \in {"c", "x", "y"} -> t >= 1 /\ t <= 65535
      [] name \in {"f", "e"} -> t >= 1
      [] name \in {"g", "b", "r"} -> t >= 0
      [] name = "i" -> t >= 0 /\ t <= 999
      [] name \in {"q", "s", "v"} -> Len(tok) = 1 /\ t \in {1, 2, 4, 8}
      [] name = "t" -> t >= 0 /\ t <= 1000
      [] name = "w" -> Len(tok) = 1 /\ t >= 0 /\ t <= 9

(* the option's assignment *)
ArgStore(g, name, t) ==
    CASE name = "d" -> [g EXCEPT !.d = t - 1]
      [] name = "c" -> [g EXCEPT !.c = t - 1]
      [] name = "f" -> [g EXCEPT !.f_num = t]
      [] name = "g" -> [g EXCEPT !.f_time = t]
      [] name = "i" -> [g EXCEPT !.img_id = t]
      [] name = "b" -> [g EXCEPT !.b_time = t]
      [] name = "e" -> [g EXCEPT !.e_time = t]
      [] name = "q" -> [g EXCEPT !.q_simd = t]
      [] name = "s" -> [g EXCEPT !.s_type = t]
      [] name = "v" -> [g EXCEPT !.v_size = t]
      [] name = "t" -> [g EXCEPT !.t_pool = t]
      [] name = "w" -> [g EXCEPT !.w_size = t]
      [] name = "x" -> [g EXCEPT !.x_res = t, !.x_new = t]
      [] name = "y" -> [g EXCEPT !.y_res = t, !.y_new = t]
      [] name = "r" -> [g EXCEPT !.l_time = t]

ArgMode(name) ==
    CASE name = "l" -> "l_mode" [] name = "h" -> "h_mode" [] name = "o" -> "o_mode"
      [] name = "u" -> "u_mode" [] name = "a" -> "a_mode"

(* if (k < argc && strcmp(argv[k], "-name") == 0 && ++k < argc) { ... } on  *)
(* s = [k, t, g, ret]; ret = 0 once args_init has returned 0               *)
ArgValuedIf(args, s, name) ==
    IF s.ret = 0 \/ ~(s.k <= Len(args) /\ args[s.k] = <<"-", name>>) THEN s
    ELSE IF ~(s.k + 1 <= Len(args)) THEN [s EXCEPT !.k = s.k + 1]
    ELSE Let(ArgParse(name, args[s.k + 1], s.t), LAMBDA t :
         IF ArgAccepts(name, args[s.k + 1], t)
         THEN [s EXCEPT !.k = s.k + 1, !.t = t, !.g = ArgStore(s.g, name, t)]
         ELSE [s EXCEPT !.k = s.k + 1, !.t = t, !.ret = 0])

(* if (k < argc && strcmp(argv[k], "-name") == 0 && !mode) mode = RT_TRUE *)
ArgFlagIf(args, s, name) ==
    IF s.ret = 0 \/ ~(s.k <= Len(args) /\ args[s.k] = <<"-", name>>) THEN s
    ELSE IF s.g[ArgMode(name)] THEN s
    ELSE [s EXCEPT !.g[ArgMode(name)] = TRUE]

(* the body of the loop over k: the ifs in their order *)
RECURSIVE ArgBody(_, _, _)
ArgBody(args, s, i) ==
    IF i > Len(ArgValued) + Len(ArgFlags) THEN s
    ELSE Let(IF i <= Len(ArgValued) THEN ArgValuedIf(args, s, ArgValued[i])
             ELSE ArgFlagIf(args, s, ArgFlags[i - Len(ArgValued)]), LAMBDA s1 :
         ArgBody(args, s1, i + 1))

(* for (k = 1; k < argc; k++) *)
RECURSIVE ArgLoop(_, _)
ArgLoop(args, s) ==
    IF s.ret = 0 \/ ~(s.k <= Len(args)) THEN s
    ELSE Let(ArgBody(args, s, 1), LAMBDA s1 :
         ArgLoop(args, [s1 EXCEPT !.k = s1.k + 1]))

RoundUp(x, w) == ((x + w - 1) \div w) * w

(* what follows the loop when it has not returned *)
ArgFinish(g) ==
    Let(simd_init(g.q_simd, g.s_type, g.v_size), LAMBDA simd :
    Let(g.x_res * (IF g.w_size # 0 THEN g.w_size ELSE 1), LAMBDA x_res :
    [g EXCEPT !.type = Shr(simd, 8),
              !.simd = BitAnd(simd, 255),
              !.fsaa = IF g.a_mode THEN RT_FSAA_4X ELSE RT_FSAA_NO,
              !.x_res = x_res,
              !.y_res = g.y_res * (IF g.w_size # 0 THEN g.w_size ELSE 1),
              !.x_row = RoundUp(x_res, RT_SIMD_WIDTH32),
              !.thnum = IF g.t_pool # 0 THEN g.t_pool ELSE g.thnum]))

(* the command lines: options with and without a value, numbers *)
ArgTokens == {<<"-", "t">>, <<"-", "f">>, <<"-", "u">>, <<"0">>, <<"4">>,
              <<"1", "0">>}
ThreadDefaults == {1, 16}
WindowDefaults == {0, 1}
(* what the local t of args_init may hold before it is first assigned *)
Indeterminate == {-1, 0, 1}

InitArgs ==
    /\ scene = scn_test04
    /\ opts \in {RT_OPTS_FULL}
    /\ lit = LitOf(scene)
    /\ obj = <<>>
    /\ frame = 0
    /\ acts = 0
    /\ call = NoCall
    /\ wlog = {}
    /\ reads = NoReads
    /\ insts = <<>>
    /\ \E args \in SeqsUpTo(ArgTokens, MaxArgs) :
       \E thnum \in ThreadDefaults : \E w_size \in WindowDefaults :
          demo = [args |-> args, ret |-> 1, g |-> RootGlobals(thnum, w_size)]
    /\ res = "ok"
    /\ built = <<>>

(* args_init(argc, argv); t0 is the value the local t starts with *)
args_init(t0) ==
    /\ call.op = "none"
    /\ \E s \in {ArgLoop(demo.args, [k |-> 1, t |-> t0, g |-> demo.g, ret |-> 1])} :
          demo' = [args |-> demo.args, ret |-> s.ret,
                   g |-> IF s.ret = 0 THEN s.g ELSE ArgFinish(s.g)]
    /\ call' = [op |-> "args_init", time |-> -1, action |-> "none"]
    /\ UNCHANGED <<scene, opts, lit, obj, frame, acts, wlog, reads, insts, res, built>>

NextArgs == \E t0 \in Indeterminate : args_init(t0)

SpecArgs == InitArgs /\ [][NextArgs]_vars

(***************************************************************************)
(* The demo's keys: main_init, then main_step with a toggled key.  The     *)
(* retry loops of F7 and F8 take one step per iteration.  demo holds the   *)
(* globals, sc[i] as whether scene i exists, and the SIMD targets sup of   *)
(* the build; the build has RT_OPTS_STATIC != 0.                           *)
(***************************************************************************)
Widths == {4, 8, 16, 32, 64}
Subvariants == {1, 2, 4, 8}

(* the <<width, subvariant>> pairs compiled in: 128-bit only; the x86      *)
(* makefile's RT_128=1+2+4 RT_256=1+2; a target with 1024-bit vectors      *)
Builds == {{<<4, 1>>},
           {<<4, 1>>, <<4, 2>>, <<4, 4>>, <<8, 1>>, <<8, 2>>},
           {<<4, 1>>, <<32, 1>>}}

Target(p) == BitOr(p[1], Shl(p[2], 8))

(* rt_Scene::set_simd: the values it may return for the request: the pair  *)
(* itself if compiled in, else the closest pair compiled in                *)
set_simd(sup, simd) ==
    LET w == BitAnd(simd, 255)
        t == Shr(simd, 8)
    IN
    IF <<w, t>> \in sup THEN {simd}
    ELSE IF \E p \in sup : p[1] = w THEN {Target(p) : p \in {q \in sup : q[1] = w}}
    ELSE IF \E p \in sup : p[2] = t THEN {Target(p) : p \in {q \in sup : q[2] = t}}
    ELSE {Target(p) : p \in sup}

(* rt_Scene::set_fsaa: the mode selected *)
set_fsaa(fsaa) == IF fsaa = RT_FSAA_4X THEN RT_FSAA_4X ELSE RT_FSAA_NO

(* from_simd: vector-size, sub-variant and quad-factor of a target value,  *)
(* in the build for targets other than x86-64 and POWER                    *)
from_simd(simd) ==
    LET type == Shr(simd, 8)
        s == BitAnd(simd, 255)
        size == IF s >= 8 /\ type <= 4 THEN Shr(s, 2) ELSE 1
    IN
    BitOr(BitOr(Shl(size, 16), Shl(type, 8)), s \div (4 * size))

(* the next sub-variant and the next width of the F7 and F8 loops *)
TypeNext_same(type) == type
TypeNext(type) == (type % 8) + (type % 7)
SimdNext(simd) == (simd % 64) + (simd % 60)

DemoIdx == 0..(RT_ARR_SIZE_sc_rt - 1)

InitKeys ==
    /\ scene = scn_test04
    /\ opts \in {RT_OPTS_FULL}
    /\ lit = LitOf(scene)
    /\ obj = <<>>
    /\ frame = 0
    /\ acts = 0
    /\ call = NoCall
    /\ wlog = {}
    /\ reads = NoReads
    /\ insts = <<>>
    /\ \E sup \in Builds : \E d \in DemoIdx : \E u_mode \in BOOLEAN :
          demo = [sup |-> sup, sc |-> [i \in DemoIdx |-> FALSE],
                  static |-> [i \in DemoIdx |-> FALSE],
                  d |-> d, u_mode |-> u_mode, fsaa |-> RT_FSAA_NO,
                  q_simd |-> 0, s_type |-> 0, v_size |-> 0,
                  simd |-> 0, type |-> 0, size |-> 0,
                  told |-> 0, sold |-> 0, pc |-> "start", ret |-> 1]
    /\ res = "ok"
    /\ built = <<>>

(* main_init: the scenes are created, the SIMD target selected and taken   *)
(* through from_simd and simd_init; r is what set_simd returns for the     *)
(* first scene                                                             *)
main_init(r) ==
    /\ demo.pc = "start"
    /\ r \in set_simd(demo.sup, BitOr(demo.simd, Shl(demo.type, 8)))
    /\ LET made == IF demo.u_mode THEN {demo.d} ELSE DemoIdx
           type1 == Shr(r, 8)
           simd1 == BitAnd(r, 255)
           y == from_simd(BitOr(simd1, Shl(type1, 8)))
           size2 == Shr(y, 16)
           type2 == BitAnd(Shr(y, 8), 255)
           simd2 == BitAnd(y, 255)
           z == simd_init(simd2, type2, size2)
           refused ==
               \/ demo.s_type # 0 /\ demo.s_type # BitAnd(type1, 15) /\ demo.v_size = 0
               \/ demo.q_simd # 0 /\ demo.q_simd # BitAnd(simd1 \div 4, 15)
                      /\ demo.v_size = 0
               \/ demo.v_size # 0 /\ demo.v_size # size2
               \/ demo.s_type # 0 /\ demo.s_type # type2 /\ demo.v_size # 0
               \/ demo.q_simd # 0 /\ demo.q_simd # simd2 /\ demo.v_size # 0
       IN
       demo' = IF refused
               THEN [demo EXCEPT !.sc = [i \in DemoIdx |-> i \in made],
                                 !.simd = simd1, !.type = type1,
                                 !.ret = 0, !.pc = "over"]
               ELSE [demo EXCEPT !.sc = [i \in DemoIdx |-> i \in made],
                                 !.static[demo.d] = demo.u_mode,
                                 !.fsaa = set_fsaa(demo.fsaa),
                                 !.size = size2,
                                 !.type = Shr(z, 8), !.simd = BitAnd(z, 255),
                                 !.pc = "idle"]
    /\ call' = [op |-> "main_init", time |-> -1, action |-> "none"]
    /\ UNCHANGED <<scene, opts, lit, obj, frame, acts, wlog, reads, insts, res, built>>

(* F11: the next demo scene; sc[d] is used without a test *)
key_F11(g) ==
    LET d1 == (g.d + 1) % RT_ARR_SIZE_sc_rt
    IN
    IF ~g.sc[d1] THEN {[g EXCEPT !.d = d1, !.pc = "null"]}
    ELSE {[g EXCEPT !.d = d1, !.fsaa = set_fsaa(g.fsaa),
                    !.type = Shr(r, 8), !.simd = BitAnd(r, 255)] :
             r \in set_simd(g.sup, BitOr(g.simd, Shl(g.type, 8)))}

(* F10: static-update mode toggled, RT_OPTS_STATIC of the scene follows *)
key_F10(g) == [g EXCEPT !.u_mode = ~g.u_mode, !.static[g.d] = ~g.u_mode]

(* main_step with the toggled key: the test of sc[d], the keys skipped in  *)
(* static-update mode (F7, F8, F11), then F10; F7 and F8 enter their loops *)
main_keys(key) ==
    /\ demo.pc = "idle"
    /\ \E g \in (IF ~demo.sc[demo.d] THEN {[demo EXCEPT !.ret = 0, !.pc = "over"]}
                 ELSE IF key = "F7" /\ ~demo.u_mode
                 THEN {[demo EXCEPT !.told = demo.type, !.pc = "F7"]}
                 ELSE IF key = "F8" /\ ~demo.u_mode
                 THEN {[demo EXCEPT !.sold = demo.simd, !.pc = "F8"]}
                 ELSE IF key = "F11" /\ ~demo.u_mode THEN key_F11(demo)
                 ELSE IF key = "F10" THEN {key_F10(demo)}
                 ELSE {demo}) :
          demo' = g
    /\ call' = [op |-> "main_step", time |-> -1, action |-> key]
    /\ UNCHANGED <<scene, opts, lit, obj, frame, acts, wlog, reads, insts, res, built>>

(* one iteration of the F7 loop: do { type = ...; tnew = set_simd(...) >> 8 } *)
(* while (type != tnew)                                                    *)
key_F7 ==
    /\ demo.pc = "F7"
    /\ \E type \in {TypeNext(demo.type)} :
       \E r \in set_simd(demo.sup, BitOr(demo.simd, Shl(type, 8))) :
          demo' = [demo EXCEPT !.type = type,
                               !.pc = IF type # Shr(r, 8) THEN "F7" ELSE "idle"]
    /\ call' = [op |-> "main_step", time |-> -1, action |-> "F7"]
    /\ UNCHANGED <<scene, opts, lit, obj, frame, acts, wlog, reads, insts, res, built>>

(* one iteration of the F8 loop: the next width with the current           *)
(* sub-variant, then with sub-variant 0                                    *)
key_F8 ==
    /\ demo.pc = "F8"
    /\ \E simd \in {SimdNext(demo.simd)} :
       \E r1 \in set_simd(demo.sup, BitOr(simd, Shl(demo.type, 8))) :
       \E r2 \in set_simd(demo.sup, simd) :
          demo' = IF simd = BitAnd(r1, 255)
                  THEN [demo EXCEPT !.simd = simd, !.pc = "idle"]
                  ELSE IF simd = BitAnd(r2, 255)
                  THEN [demo EXCEPT !.simd = simd, !.type = Shr(r2, 8), !.pc = "idle"]
                  ELSE [demo EXCEPT !.simd = simd]
    /\ call' = [op |-> "main_step", time |-> -1, action |-> "F8"]
    /\ UNCHANGED <<scene, opts, lit, obj, frame, acts, wlog, reads, insts, res, built>>

RK_TOGGLED == {"NONE", "F7", "F8", "F10", "F11"}

Start == \E r \in {Target(p) : p \in UNION Builds} : main_init(r)
Keys == \E key \in RK_TOGGLED : main_keys(key)

NextKeys == Start \/ Keys \/ key_F7 \/ key_F8

SpecKeys == InitKeys /\ [][NextKeys]_vars

(* the loops run in the one thread of the event loop: an iteration that    *)
(* can be taken is taken                                                   *)
SpecKeysLive == SpecKeys /\ WF_vars(key_F7) /\ WF_vars(key_F8)

(***************************************************************************)
(* Properties of the hierarchy after Phase 0                               *)
(***************************************************************************)
RECURSIVE StrictAncestors(_)
StrictAncestors(n) ==
    IF Parent(n) = Null THEN {} ELSE {Parent(n)} \cup StrictAncestors(Parent(n))

(* l is a signed axis permutation: each axis goes to plus or minus an axis, *)
(* no two to the same one                                                   *)
SignedPermutation(l) ==
    /\ \A c \in 1..3 : \E r \in 1..3 :
          l[c][r] \in {-1, 1} /\ \A q \in 1..3 : q # r => l[c][q] = 0
    /\ \A r \in 1..3 : \E c \in 1..3 : l[c][r] # 0

(* C2: after every Phase-0 update the trnode of every object is the object *)
(* itself, one of its strict ancestors or null, and an object with a null  *)
(* trnode has a matrix that is a translation composed with a signed axis   *)
(* permutation.                                                            *)
C2_TrnodeShape ==
    frame >= 1 =>
        \A n \in Nodes :
            /\ obj[n].trnode \in {Null, n} \cup StrictAncestors(n)
            /\ obj[n].trnode = Null =>
                   obj[n].mtx.d = 1 /\ SignedPermutation(obj[n].mtx.l)

(* C2 witness: one frame has been updated and the scene has an object that *)
(* is its own trnode, one whose trnode is a strict ancestor and one with a *)
(* null trnode whose axes are permuted.                                    *)
C2_Witness ==
    /\ frame >= 1
    /\ \E n \in Nodes : obj[n].trnode = n
    /\ \E n \in Nodes : obj[n].trnode \in StrictAncestors(n)
    /\ \E n \in Nodes : obj[n].trnode = Null /\ obj[n].mtx.l # iden4.l

(* C10: in Phase 1 the update of an object writes fields of that object    *)
(* only.                                                                   *)
C10_OwnWritesOnly == \A w \in wlog : w[1] = w[2]

(***************************************************************************)
(* Properties of consecutive calls                                         *)
(***************************************************************************)
(* C6: a call of update with the time of the call before it changes no     *)
(* object's transform, the camera's position and rotation included.        *)
C6_SameTimeNoOp ==
    [][(call'.op = call.op /\ call'.time = call.time) => lit'.trm = lit.trm]_vars

NoAnimation == \A n \in Nodes : scene.anim[n] = "NULL"

(* the surfaces whose boxes update_minmax computes on the direct path *)
DirectPath(n) ==
    obj[n].clip = <<>> \/ obj[n].trnode = n \/ RT_OPTS_ADJUST \notin opts

(* C9 as stated: with incremental update, no animation and no camera input *)
(* every frame after frame 0 leaves obj_changed and srf_changed zero and   *)
(* recomputes the boxes of no surface.                                     *)
C9_NothingRecomputed ==
    (frame >= 2 /\ acts = 0 /\ RT_OPTS_UPDATE \in opts /\ NoAnimation) =>
        /\ \A n \in Nodes : obj[n].obj_changed = {}
        /\ \A n \in Surfaces : obj[n].srf_changed = {} /\ ~obj[n].recalc

(* C9 amended: with incremental update, no animation and no camera input   *)
(* every frame after frame 0 leaves obj_changed and srf_changed zero; the  *)
(* boxes are recomputed on the direct path only.                           *)
C9_OnlyDirectRecomputed ==
    (frame >= 2 /\ acts = 0 /\ RT_OPTS_UPDATE \in opts /\ NoAnimation) =>
        /\ \A n \in Nodes : obj[n].obj_changed = {}
        /\ \A n \in Surfaces : obj[n].srf_changed = {}
                                /\ (obj[n].recalc <=> DirectPath(n))

(* C9 witness: a second frame without animation or camera input, with a    *)
(* surface on each path of update_minmax.                                  *)
C9_Witness ==
    /\ frame >= 2 /\ acts = 0 /\ RT_OPTS_UPDATE \in opts /\ NoAnimation
    /\ \E n \in Surfaces : ~DirectPath(n) /\ ~obj[n].recalc
    /\ \E n \in Surfaces : DirectPath(n) /\ obj[n].recalc

(***************************************************************************)
(* Properties of the boxes and the bounding sphere after Phase 1           *)
(***************************************************************************)
(* C3: after every render the bounding box of every surface has            *)
(* bmin <= bmax on each axis.                                              *)
C3_BoxOrdered ==
    frame >= 1 =>
        \A n \in Surfaces : \A x \in 1..3 : obj[n].bmin[x] <= obj[n].bmax[x]

(* C4: after every render the bounding box of every surface lies in its    *)
(* clipping box, on the direct path and on the path of custom clippers.    *)
C4_BoxInClip ==
    frame >= 1 =>
        \A n \in Surfaces : \A x \in 1..3 :
            obj[n].cmin[x] <= obj[n].bmin[x] /\ obj[n].bmax[x] <= obj[n].cmax[x]

(* a MINUS_OUTER clipper of the list has been taken into account *)
Tightened(n) ==
    ~DirectPath(n) /\ OuterClippers(obj, n, obj[n].clip, 1, 0) # <<>>

(* C4 witness: a frame has been rendered and a surface has one side of its *)
(* box brought in by a custom clipper and another side clipped by its own  *)
(* axis clippers.                                                          *)
C4_Witness ==
    /\ frame >= 1
    /\ \E n \in Surfaces :
          /\ Tightened(n)
          /\ \E x \in 1..3 : obj[n].bmax[x] < recalc_minmax_init(obj[n], n).bmax[x]
          /\ \E y \in 1..3 : obj[n].cmin[y] # -INF \/ obj[n].cmax[y] # INF

BoxFinite(n) ==
    \A x \in 1..3 : obj[n].bmin[x] # -INF /\ obj[n].bmax[x] # INF

(* the corner of n's bounding box picked by pick, through the matrix of    *)
(* the vertices, lies in the bounding sphere (all over common denominators) *)
CornerInSphere(n, pick) ==
    LET o == obj[n]
    IN
    Let(Vec3(LAMBDA x : IF x \in pick THEN o.bmax[x] ELSE o.bmin[x]), LAMBDA c :
    Let(matrix_mul_vector(VertsMatrix(obj, n), c), LAMBDA v :
    Let(RT_VEC3_SUB(VecScale(v.n, o.mid.d), VecScale(o.mid.n, v.d)), LAMBDA dff :
    RT_VEC3_DOT(dff, dff) * o.rad2.d * o.rad2.d
            <= o.rad2.n * (v.d * o.mid.d) * (v.d * o.mid.d))))

(* C5: after every render the bounding sphere of every surface contains    *)
(* its whole bounding box.                                                 *)
C5_SphereHoldsBox ==
    frame >= 1 =>
        \A n \in Surfaces :
            BoxFinite(n) /\ \A pick \in SUBSET (1..3) : CornerInSphere(n, pick)

(***************************************************************************)
(* C7: once every scene built on a scene literal has been destroyed, the   *)
(* literal's transforms equal their values before the first scene was      *)
(* built, for any number of scenes on the literal and any interleaving of  *)
(* their construction, animated updates and destruction.                   *)
(***************************************************************************)
C7_LiteralRestored ==
    (insts # <<>> /\ \A i \in 1..Len(insts) : ~insts[i].live)
        => lit.trm = scene.trm

(***************************************************************************)
(* C8: while an array processes its relation list, every child index used  *)
(* to read obj_arr_l or obj_arr_r lies in 0..size-1 of the sub-array       *)
(* selected for that side at that moment (also after INDEX_ARRAY selected  *)
(* a sub-array of another size); a relation that is not skipped has both   *)
(* indices below the selected sizes, and an index of -1 or below is never  *)
(* used to index an array.                                                 *)
(***************************************************************************)
C8_IndexInRange ==
    /\ \A rd \in reads.idx : rd.idx >= 0 /\ rd.idx < obj_num(rd.arr)
    /\ \A dn \in reads.done :
          dn.obj1 < obj_num(dn.arr_l) /\ dn.obj2 < obj_num(dn.arr_r)

(* after INDEX_ARRAY selected a sub-array, a relation read a child of it   *)
(* at an index the root array does not have                                *)
C8_Witness ==
    /\ frame >= 1
    /\ \E rd \in reads.idx : rd.arr # Root /\ rd.idx >= obj_num(Root)
    /\ \E dn \in reads.done : dn.arr_l # Root \/ dn.arr_r # Root

(* C11: a frame during which a worker reports an error (eout non-zero) is  *)
(* not given to the display, and the same event loop can still render a    *)
(* following frame                                                         *)
C11_AbortedFrameRecoverable ==
    (call.op = "main_step" /\ demo.eout # 0 /\ demo.ret = 0)
        => (demo.shown < frame /\ demo.run)

(* a required pointer of the literal is null: the object record, the       *)
(* payload of an object, or both sources of a surface's material           *)
RequiredNull ==
    \/ \E n \in Nodes : IsNull(n, "obj") \/ IsNull(n, "pobj")
    \/ \E n \in Surfaces : \E sd \in {"outer", "inner"} :
          IsNull(n, "pmat_" \o sd) /\ IsNull(n, "side_" \o sd)

(* C12: building the object tree from a literal in which a required        *)
(* pointer is null ends in an exception, whichever the pointer is          *)
C12_NullPointerThrows ==
    (call.op = "construct" /\ RequiredNull) => res = "exception"

(* the clipper box of surface n is (-inf, +inf) on all three axes *)
Unclipped(n) == scene.min[n] = NINFV /\ scene.max[n] = INFV

EmptyPolyhedron(n) == verts_num(n) = 0 /\ edges_num(n) = 0 /\ faces_num(n) = 0

(* C13 as stated: a surface of any variant whose clipper box is unbounded  *)
(* on all three axes has an empty polyhedron                               *)
C13_UnclippedIsEmpty == \A n \in Surfaces : Unclipped(n) => EmptyPolyhedron(n)

(* C13: a plane, cylinder, cone or hyperboloid, and a paraboloid with      *)
(* non-zero par, whose clipper box is unbounded on all three axes has an   *)
(* empty polyhedron and no vertices after any frame; a sphere has its 8    *)
(* vertices whatever its box                                               *)
C13_UnclippedOpenIsEmpty ==
    \A n \in Surfaces :
       /\ (Unclipped(n) /\ Tag(n) # "SPHERE"
              /\ (Tag(n) = "PARABOLOID" => scene.prm[n] # 0))
             => (EmptyPolyhedron(n) /\ (frame >= 1 => obj[n].verts.n = <<>>))
       /\ Tag(n) = "SPHERE" => (verts_num(n) = 8 /\ edges_num(n) = 12 /\ faces_num(n) = 6)

C13_Witness ==
    /\ frame >= 1
    /\ \E n \in Surfaces : Unclipped(n) /\ Tag(n) = "PARABOLOID" /\ EmptyPolyhedron(n)
                           /\ obj[n].verts.n = <<>>
    /\ \E n \in Surfaces : Unclipped(n) /\ Tag(n) = "SPHERE" /\ Len(obj[n].verts.n) = 8

(* the pairs <<c, s>>: cylinder c has sphere s as its custom clipper       *)
(* through a relation {c, MINUS_OUTER, s} of their array, both under the   *)
(* same trnode and c not its own trnode, RT_OPTS_ADJUST on                 *)
CylinderMinusSphere ==
    {cs \in Surfaces \X Surfaces :
        /\ Tag(cs[1]) = "CYLINDER" /\ Tag(cs[2]) = "SPHERE"
        /\ RT_OPTS_ADJUST \in opts
        /\ obj[cs[1]].trnode = obj[cs[2]].trnode /\ obj[cs[1]].trnode # cs[1]
        /\ \E a \in Arrays : \E i \in 1..Len(scene.rel[a]) :
              LET r == scene.rel[a][i]
              IN  /\ r.rel = RT_REL_MINUS_OUTER /\ r.obj1 >= 0 /\ r.obj2 >= 0
                  /\ ObjAt(a, r.obj1) = cs[1] /\ ObjAt(a, r.obj2) = cs[2]}

(* the box of surface n computed without its custom clippers *)
BoxWithoutRelation(n) == update_minmax([obj EXCEPT ![n].clip = <<>>], n)

(* C14 as stated: the cylinder's box along K is smaller than the box       *)
(* without the relation and leaves out the K-interval of the sphere        *)
C14_ShrinksToExclude ==
    frame >= 1 =>
    \A cs \in CylinderMinusSphere :
       LET c == obj[cs[1]]
           s == obj[cs[2]]
           b == BoxWithoutRelation(cs[1])
       IN  /\ c.bmax[3] - c.bmin[3] < b.bmax[3] - b.bmin[3]
           /\ c.bmax[3] <= s.bmin[3] \/ c.bmin[3] >= s.bmax[3]

(* C14: the cylinder's box along K lies in the box without the relation   *)
(* and in the K-interval of the sphere; it is smaller than the box         *)
(* without the relation when that box reaches out of the sphere's interval *)
C14_ShrinksToSphere ==
    frame >= 1 =>
    \A cs \in CylinderMinusSphere :
       LET c == obj[cs[1]]
           s == obj[cs[2]]
           b == BoxWithoutRelation(cs[1])
       IN  /\ c.bmin[3] >= RT_MAX(b.bmin[3], s.bmin[3])
           /\ c.bmax[3] <= RT_MIN(b.bmax[3], s.bmax[3])
           /\ (b.bmin[3] < s.bmin[3] \/ b.bmax[3] > s.bmax[3])
                 => c.bmax[3] - c.bmin[3] < b.bmax[3] - b.bmin[3]

C14_Witness ==
    /\ frame >= 1
    /\ \E cs \in CylinderMinusSphere :
          /\ obj[cs[1]].clip # <<>>
          /\ BoxWithoutRelation(cs[1]).bmin[3] = -INF
          /\ obj[cs[1]].bmin[3] = obj[cs[2]].bmin[3]
          /\ obj[cs[1]].bmax[3] = obj[cs[2]].bmax[3]
          /\ obj[cs[1]].trnode # Null

(* the relations processed in the last Phase 0 whose left operand is n *)
LeftOf(n) == {dn \in reads.done : dn.obj1 >= 0 /\ ObjAt(dn.arr_l, dn.obj1) = n}

(* n is the left operand of exactly one relation, a MINUS_INNER or         *)
(* MINUS_OUTER whose right operand is a sibling surface with trnode null   *)
(* or itself                                                               *)
OneSiblingClipper(n) ==
    /\ Cardinality(LeftOf(n)) = 1
    /\ \A dn \in LeftOf(n) :
          /\ dn.rel \in {RT_REL_MINUS_INNER, RT_REL_MINUS_OUTER}
          /\ dn.obj2 >= 0
          /\ LET R == ObjAt(dn.arr_r, dn.obj2)
             IN  R \in Surfaces /\ Parent(R) = Parent(n) /\ obj[R].trnode \in {Null, R}

(* no array above n is the left operand of a relation *)
NoArrayAboveLeft(n) == \A a \in StrictAncestors(n) : LeftOf(a) = {}

RECURSIVE PathProduct(_)
PathProduct(n) ==
    IF Parent(n) = Null THEN matrix_from_transform(lit.trm[n])
    ELSE matrix_mul_matrix(PathProduct(Parent(n)), matrix_from_transform(lit.trm[n]))

(* axm of rt_Array::update: the axis mapping as a matrix *)
AxisMatrix(map, sgn) ==
    [l |-> Vec3(LAMBDA i : Vec3(LAMBDA c : IF c = map[i] THEN sgn[i] ELSE 0)),
     p |-> Zero3, d |-> 1]

(* the matrix an object n places its points with: mtx, with the axis       *)
(* mapping put back where rt_Node::update has taken it out                 *)
Placement(n) ==
    IF obj[n].trnode = n /\ obj[n].mtx_has_trm = {RT_UPDATE_FLAG_SCL}
    THEN matrix_mul_matrix(obj[n].mtx, AxisMatrix(obj[n].map, obj[n].sgn))
    ELSE obj[n].mtx

(* C16: with transform caching disabled, after Phase 0 the matrix of every *)
(* object (its separated axis mapping put back) is the product of the      *)
(* local matrices on its path from the root, each factor once              *)
C16_UncachedIsPathProduct ==
    (frame >= 1 /\ RT_OPTS_TARRAY \notin opts)
        => \A n \in Nodes : Tag(n) \in SupportedTags
               => Placement(n) = PathProduct(n)

(* where an object is placed in the world: through its trnode when that is *)
(* a strict ancestor, by its own matrix otherwise                          *)
WorldMtx(n) ==
    IF obj[n].trnode \in StrictAncestors(n)
    THEN matrix_mul_matrix(obj[obj[n].trnode].mtx, obj[n].mtx)
    ELSE Placement(n)

(* with transform caching enabled, the matrix of the trnode times the own  *)
(* matrix of every surface or array whose trnode is a strict ancestor is   *)
(* the path product, and so is the matrix of every object that is its own  *)
(* trnode                                                                  *)
CachedIsPathProduct ==
    RT_OPTS_TARRAY \in opts
        => \A n \in Nodes : Tag(n) \in SupportedTags
               => /\ (Tag(n) \notin {"CAMERA", "LIGHT"}
                      /\ obj[n].trnode \in StrictAncestors(n))
                         => matrix_mul_matrix(obj[obj[n].trnode].mtx, obj[n].mtx)
                                = PathProduct(n)
                  /\ obj[n].trnode = n => Placement(n) = PathProduct(n)

(* C17: after Phase 0 with transform caching enabled, trnode.mtx times mtx *)
(* (mtx alone for an object that is its own trnode) is the product of the  *)
(* local matrices on the path from the root; and cached and uncached       *)
(* updates place every object at the same world transform, that product    *)
C17_CachedEqualsUncached ==
    frame >= 1
        => /\ CachedIsPathProduct
           /\ \A n \in Nodes : Tag(n) \in SupportedTags
                  => WorldMtx(n) = PathProduct(n)

(* the nearest of n and its ancestors whose own transform is non-trivial   *)
RECURSIVE NearestOwnTrm(_)
NearestOwnTrm(n) ==
    IF n = Null THEN Null
    ELSE IF obj[n].obj_has_trm # {} THEN n
    ELSE NearestOwnTrm(Parent(n))

(* C18: after Phase 0 the trnode of every object, of any kind and with     *)
(* transform caching on or off, is the nearest of the object and its       *)
(* ancestors whose own transform is non-trivial, and null if there is none *)
C18_TrnodeIsNearest ==
    frame >= 1
        => \A n \in Nodes : Tag(n) \in SupportedTags
               => obj[n].trnode = NearestOwnTrm(n)

(* C18 amended: that holds for arrays and surfaces with transform caching  *)
(* on; a camera, a light and, with caching off, every object is its own    *)
(* trnode as soon as it or an ancestor has a non-trivial transform         *)
C18_TrnodeIsNearestOrSelf ==
    frame >= 1
        => \A n \in Nodes : Tag(n) \in SupportedTags
               => obj[n].trnode =
                      IF /\ NearestOwnTrm(n) # Null
                         /\ \/ RT_OPTS_TARRAY \notin opts
                            \/ Tag(n) \in {"CAMERA", "LIGHT"}
                      THEN n
                      ELSE NearestOwnTrm(n)

(* a frame has been updated with transform caching on, and there are a     *)
(* camera and a light that are their own trnode without a transform of     *)
(* their own, and a surface whose trnode is its parent                     *)
C18_Witness ==
    /\ frame >= 1 /\ RT_OPTS_TARRAY \in opts
    /\ \A t \in {"CAMERA", "LIGHT"} :
           \E n \in Nodes : /\ Tag(n) = t /\ obj[n].trnode = n
                            /\ obj[n].obj_has_trm = {}
    /\ \E n \in Nodes : Tag(n) \in SurfaceTags /\ obj[n].trnode = Parent(n)

(* the elements of a custom clipper list by kind *)
IsAccumMarker(e) == e.obj = Null
IsTrnodeElem(e) == e.obj # Null /\ e.data = "TRNODE"
IsClipper(e) == e.obj # Null /\ e.data # "TRNODE"

(* the clipper's surface has a trnode that is a strict ancestor *)
CachedClipper(e) ==
    IsClipper(e) /\ obj[e.obj].trnode \in StrictAncestors(e.obj)

(* the accumulation segment position k of the list lies in: the number of  *)
(* the ENTER marker that opens it, 0 outside all segments                  *)
SegmentAt(clip, k) ==
    LET enters == Cardinality({j \in 1..k : clip[j] = Elem(RT_ACCUM_ENTER, Null)})
    IN
    LET leaves == Cardinality({j \in 1..k : clip[j] = Elem(RT_ACCUM_LEAVE, Null)})
    IN
    IF enters > leaves THEN enters ELSE 0

(* C19: in every surface's custom clipper list each clipper whose surface  *)
(* has a strict ancestor as trnode comes after an element for that trnode  *)
(* with only clippers of the same trnode in between, and no accumulation   *)
(* segment, nor the part outside all segments, has two elements for one    *)
(* trnode                                                                  *)
C19_ClippersUnderTrnodeElem ==
    \A n \in Nodes : Tag(n) \in SurfaceTags =>
        LET clip == obj[n].clip
        IN
        /\ \A k \in 1..Len(clip) : CachedClipper(clip[k]) =>
               \E m \in 1..(k - 1) :
                   /\ clip[m] = Elem("TRNODE", obj[clip[k].obj].trnode)
                   /\ \A j \in (m + 1)..(k - 1) :
                          /\ CachedClipper(clip[j])
                          /\ obj[clip[j].obj].trnode = clip[m].obj
        /\ \A m1, m2 \in 1..Len(clip) :
               (m1 < m2 /\ IsTrnodeElem(clip[m1]) /\ clip[m2] = clip[m1])
                   => SegmentAt(clip, m1) # SegmentAt(clip, m2)

(* a list with two clippers under one trnode element inside a segment,     *)
(* a second trnode element in the same segment, and an element for the     *)
(* first trnode once more outside the segment                              *)
C19_Witness ==
    \E n \in Nodes : Tag(n) \in SurfaceTags /\
        LET clip == obj[n].clip
        IN
        \E m \in 1..Len(clip) :
            /\ IsTrnodeElem(clip[m]) /\ SegmentAt(clip, m) # 0
            /\ m + 2 <= Len(clip)
            /\ CachedClipper(clip[m + 1]) /\ CachedClipper(clip[m + 2])
            /\ \E m2 \in 1..Len(clip) :
                   /\ IsTrnodeElem(clip[m2]) /\ clip[m2] # clip[m]
                   /\ SegmentAt(clip, m2) = SegmentAt(clip, m)
            /\ \E m3 \in 1..Len(clip) :
                   clip[m3] = clip[m] /\ SegmentAt(clip, m3) = 0

(* the accumulations of a relation list whose indices are all in range:    *)
(* done holds the closed ones in the order of their closing, each with the *)
(* left index of its MINUS_ACCUM and the relations accumulated since its   *)
(* opening; open holds the relations of the one not closed yet             *)
RECURSIVE Accums(_, _, _)
Accums(rels, i, a) ==
    IF i > Len(rels) THEN a
    ELSE IF /\ rels[i].rel \in {RT_REL_MINUS_INNER, RT_REL_MINUS_OUTER}
            /\ rels[i].obj1 = -1 /\ rels[i].obj2 >= 0
    THEN Accums(rels, i + 1, [a EXCEPT !.open = Append(a.open, rels[i])])
    ELSE IF /\ rels[i].rel = RT_REL_MINUS_ACCUM
            /\ rels[i].obj1 >= 0 /\ rels[i].obj2 = -1 /\ a.open # <<>>
    THEN Accums(rels, i + 1,
                [done |-> Append(a.done, [to |-> rels[i].obj1, lst |-> a.open]),
                 open |-> <<>>])
    ELSE Accums(rels, i + 1, a)

(* the surfaces an operand stands for: itself, or those in the array *)
RECURSIVE SurfacesOf(_)
SurfacesOf(n) ==
    IF n = Null THEN {}
    ELSE IF RT_IS_SURFACE(Tag(n)) THEN {n}
    ELSE IF RT_IS_ARRAY(Tag(n))
    THEN UNION {SurfacesOf(obj_arr(n)[k]) : k \in 1..Len(obj_arr(n))}
    ELSE {}

(* the accum markers of a list, head first *)
AccumMarkers(clip) == SelectSeq(clip, IsAccumMarker)

(* C20: in every surface's custom clipper list the accumulation markers,   *)
(* read from the head, alternate ENTER, LEAVE with none unmatched; the     *)
(* list has one segment for each accumulation closed on the surface, the   *)
(* latest first, holding the clippers accumulated with left index -1 since *)
(* its opening; outside the segments are the clippers of the direct        *)
(* relations only, so that an accumulation never closed adds nothing       *)
C20_AccumBracketed ==
    frame >= 1 =>
    \A n \in Nodes : Tag(n) \in SurfaceTags =>
        LET clip == obj[n].clip
        IN
        LET rels == scene.rel[Root]
        IN
        LET mine == SelectSeq(Accums(rels, 1, [done |-> <<>>, open |-> <<>>]).done,
                              LAMBDA a : n \in SurfacesOf(ObjAt(Root, a.to)))
        IN
        LET mk == AccumMarkers(clip)
        IN
        /\ Len(mk) = 2 * Len(mine)
        /\ \A k \in 1..Len(mk) :
               mk[k].data = IF k % 2 = 1 THEN RT_ACCUM_ENTER ELSE RT_ACCUM_LEAVE
        /\ \A d \in {RT_REL_MINUS_INNER, RT_REL_MINUS_OUTER} : \A x \in Nodes :
               /\ \A s \in 1..Len(mine) :
                      Cardinality({k \in 1..Len(clip) :
                                      clip[k] = Elem(d, x) /\ SegmentAt(clip, k) = s})
                      = LET lst == mine[Len(mine) - s + 1].lst
                        IN Cardinality({j \in 1..Len(lst) :
                               lst[j].rel = d /\ x \in SurfacesOf(ObjAt(Root, lst[j].obj2))})
               /\ Cardinality({k \in 1..Len(clip) :
                                  clip[k] = Elem(d, x) /\ SegmentAt(clip, k) = 0})
                  = Cardinality({j \in 1..Len(rels) :
                        /\ rels[j].rel = d /\ rels[j].obj1 >= 0 /\ rels[j].obj2 >= 0
                        /\ n \in SurfacesOf(ObjAt(Root, rels[j].obj1))
                        /\ x \in SurfacesOf(ObjAt(Root, rels[j].obj2))})

(* after a frame: a list with a segment of three clippers and a clipper    *)
(* outside it, from relations that end in an accumulation never closed     *)
C20_Witness ==
    /\ frame >= 1
    /\ Accums(scene.rel[Root], 1, [done |-> <<>>, open |-> <<>>]).open # <<>>
    /\ \E n \in Nodes : Tag(n) \in SurfaceTags /\
           LET clip == obj[n].clip
           IN
           /\ Len(AccumMarkers(clip)) = 2
           /\ Cardinality({k \in 1..Len(clip) :
                  IsClipper(clip[k]) /\ SegmentAt(clip, k) = 1}) = 3
           /\ \E k \in 1..Len(clip) : IsClipper(clip[k]) /\ SegmentAt(clip, k) = 0

(* C21: after Phase 0 a non-null bvnode of an object is an array that is a *)
(* strict ancestor of the object, whatever BOUND_ARRAY, UNTIE_ARRAY,       *)
(* BOUND_INDEX and UNTIE_INDEX relations the arrays carry                  *)
C21_BvnodeIsAncestorArray ==
    frame >= 1
        => \A n \in Nodes : obj[n].bvnode # Null
               => /\ Tag(obj[n].bvnode) = "ARRAY"
                  /\ obj[n].bvnode \in StrictAncestors(n)

(* the objects after rt_Array::update_bounds has run on the root array *)
AfterRootBounds ==
    rt_Array_update_bounds([obj |-> obj, w |-> {}, x |-> Root], Root).obj

(* C22: after rt_Array::update_bounds has run on the root array, the       *)
(* bounding sphere of the bvnode A of every surface or array n encloses    *)
(* the bounding sphere of n: A.rad >= distance(A.mid, n.mid) + n.rad       *)
C22_BvnodeEncloses ==
    frame >= 1 =>
        \A n \in Surfaces \cup Arrays :
            LET o == AfterRootBounds
            IN
            o[n].bvnode # Null
                => o[o[n].bvnode].rad
                       >= RT_VEC3_LEN(RT_VEC3_SUB(MidOf(o[o[n].bvnode]), MidOf(o[n])))
                          + o[n].rad

(* the children of array a with a supported tag, in literal order *)
SupportedKids(a) == SelectSeq(scene.kids[a], LAMBDA k : Tag(k) \in SupportedTags)

(* C23: after an array is constructed, obj_num is the number of children   *)
(* with a supported tag and obj_arr[0..obj_num-1] holds the objects built  *)
(* for them, in literal order and with no empty slot                       *)
C23_ArrayCompacted ==
    call.op = "construct" =>
        \A a \in DOMAIN built :
            /\ built[a].obj_num = Len(SupportedKids(a))
            /\ \A k \in 0..(built[a].obj_num - 1) :
                   built[a].obj_arr[k] = SupportedKids(a)[k + 1]

(* an array has been built from a literal with a supported child after an  *)
(* unsupported one and an unsupported child last                           *)
C23_Witness ==
    /\ call.op = "construct"
    /\ \E a \in DOMAIN built :
           LET kids == scene.kids[a]
           IN
           /\ Len(kids) >= 3
           /\ Tag(kids[1]) \notin SupportedTags
           /\ Tag(kids[2]) \in SupportedTags
           /\ Tag(kids[Len(kids)]) \notin SupportedTags
           /\ built[a].obj_num = 1

(* C24: after any sequence of rotate actions with any time arguments every *)
(* component of the camera's rotation lies in the interval (-180, +180],   *)
(* the rotation of the literal being in that interval                      *)
C24_RotNormalized ==
    \A c \in Cameras : \A k \in 1..3 :
        /\ lit.trm[c].rot[k] > -180
        /\ lit.trm[c].rot[k] <= 180

(* C30: the camera's rot[X] stays within [-180, 0] after any sequence of   *)
(* actions, for every time argument, also one earlier than the time of     *)
(* the last frame                                                          *)
C30_PitchClamped ==
    \A c \in Cameras :
        /\ lit.trm[c].rot[1] >= -180
        /\ lit.trm[c].rot[1] <= 0

(* the number a token of digits denotes *)
IsNumber(tok) == Len(tok) > 0 /\ \A i \in 1..Len(tok) : IsDigit(tok[i])
RECURSIVE DecValue(_)
DecValue(tok) ==
    IF Len(tok) = 0 THEN 0
    ELSE 10 * DecValue(SubSeq(tok, 1, Len(tok) - 1)) + IndexOf(Digits, tok[Len(tok)]) - 1

(* args from position i on is a sequence of options in their documented   *)
(* form: a mode option, or an option and a number in its range             *)
RECURSIVE OptionsFrom(_, _)
OptionsFrom(args, i) ==
    IF i > Len(args) THEN TRUE
    ELSE IF \E j \in 1..Len(ArgFlags) : args[i] = <<"-", ArgFlags[j]>>
    THEN OptionsFrom(args, i + 1)
    ELSE /\ i + 1 <= Len(args)
         /\ \E j \in 1..Len(ArgValued) :
               /\ args[i] = <<"-", ArgValued[j]>>
               /\ IsNumber(args[i + 1])
               /\ ArgAccepts(ArgValued[j], args[i + 1], DecValue(args[i + 1]))
         /\ OptionsFrom(args, i + 2)

(* C25: args_init on a command line of options that ends with the pair    *)
(* -t n, 0 <= n <= 1000, leaves the thread count at exactly n, whatever    *)
(* options precede the pair and also when it is the first option           *)
C25_ThreadCountIsN ==
    call.op = "args_init" =>
        LET args == demo.args
            m == Len(demo.args)
        IN
        (/\ m >= 2
         /\ args[m - 1] = <<"-", "t">>
         /\ IsNumber(args[m])
         /\ DecValue(args[m]) <= 1000
         /\ OptionsFrom(SubSeq(args, 1, m - 2), 1))
            => demo.g.thnum = DecValue(args[m])

(* the cycles of the sub-variants and of the widths *)
TypeCycle == (1 :> 2) @@ (2 :> 4) @@ (4 :> 8) @@ (8 :> 1)
SimdCycle == (4 :> 8) @@ (8 :> 16) @@ (16 :> 32) @@ (32 :> 64) @@ (64 :> 4)

(* C26: an iteration of the F7 loop takes a type of {1, 2, 4, 8} to the    *)
(* next of 1 -> 2 -> 4 -> 8 -> 1, an iteration of the F8 loop takes a simd *)
(* of {4, 8, 16, 32, 64} to the next of 4 -> 8 -> 16 -> 32 -> 64 -> 4      *)
C26_KeyCycles ==
    [][/\ (demo.pc = "F7" /\ demo.type \in Subvariants)
            => demo'.type = TypeCycle[demo.type]
       /\ (demo.pc = "F8" /\ demo.simd \in Widths)
            => demo'.simd = SimdCycle[demo.simd]]_vars

(* F8 has gone from 8 through 16, 32 and 64 to 4, F7 from 4 through 8 to 1 *)
C26_Witness ==
    /\ demo.pc = "idle"
    /\ demo.sold = 8 /\ demo.simd = 4
    /\ demo.told = 4 /\ demo.type = 1

(* C27: the F7 and the F8 loop terminate: once entered, from whatever type *)
(* and simd are current, 0 included, the loop is left after finitely many  *)
(* iterations                                                              *)
C27_KeyLoopsTerminate == (demo.pc \in {"F7", "F8"}) ~> (demo.pc = "idle")

(* C28: main_step uses no null scene pointer, for every start-up and every *)
(* sequence of keys; also after start-up with -u, then F10, then F11       *)
C28_NoNullScene == demo.pc # "null"

(* C29: simd_init undoes from_simd on every scene-format value: for every  *)
(* width of {4, 8, 16, 32, 64} and sub-variant of {1, 2, 4, 8}, with       *)
(* s = width | subvariant << 8 and y = from_simd(s),                       *)
(* simd_init(y & 0xFF, (y >> 8) & 0xFF, y >> 16) = s, so that main_init    *)
(* leaves simd and type as set_simd returned them                          *)
C29_SimdRoundTrip ==
    /\ \A w \in Widths : \A t \in Subvariants :
          LET s == BitOr(w, Shl(t, 8))
              y == from_simd(s)
          IN simd_init(BitAnd(y, 255), BitAnd(Shr(y, 8), 255), Shr(y, 16)) = s
    /\ call.op = "main_init" /\ demo.pc = "idle"
          => <<demo.simd, demo.type>> \in demo.sup

====
